---- MODULE Spec2Model ----
(***************************************************************************)
(* A model of the gvcode text editing core: the piece table document       *)
(* buffer with its reader view (buffer/piecetable.go) and the completion   *)
(* session engine (addons/completion).                                     *)
(*                                                                         *)
(* Text is modelled as a sequence of UTF-8 bytes (integers); a rune is one *)
(* non-continuation byte followed by its continuation bytes (128..191).    *)
(* Pieces live in a heap (the sequence `pieces`); a piece pointer is an    *)
(* index into it and Nil is the nil pointer.                               *)
(***************************************************************************)
EXTENDS Integers, Sequences, FiniteSets, TLC

\* ---------------------------------------------------------------- bounds
\* The number of PieceTable calls after construction.
MaxCalls == 4

\* ------------------------------------------------------------- constants
lineBreak == 10
RuneError == 65533
Nil == 0
HeadId == 1
TailId == 2

\* Input texts of Insert: "", the single two-byte rune U+00E9, and "\nb".
Texts == { <<>>, <<195, 169>>, <<10, 98>> }

\* Initial documents handed to NewPieceTable: "" and "a\n".
InitTexts == { <<>>, <<97, 10>> }

VARIABLES
    originalBuf,        \* PieceTable.originalBuf, as bytes
    modifyBuf,          \* PieceTable.modifyBuf, as bytes
    pieces,             \* heap of piece objects; pieces[HeadId], pieces[TailId] are the sentinels
    seqLength,          \* PieceTable.seqLength
    seqBytes,           \* PieceTable.seqBytes
    undoStack,          \* PieceTable.undoStack
    redoStack,          \* PieceTable.redoStack
    lastAction,         \* PieceTable.lastAction
    lastActionEndIdx,   \* PieceTable.lastActionEndIdx
    lastInsertPiece,    \* PieceTable.lastInsertPiece
    ref,                \* history: the plain reference string the same edits were applied to
    op,                 \* history: the last PieceTable operation and its result
    calls,              \* history: the number of PieceTable calls so far
    runBefore,          \* history: the text before the current run of inserts
    typing,             \* history: the calls so far are single-rune inserts, each at the
                        \* end of the previous one, on a document that started empty
    res,                \* history: the last reader query, its argument and its result
    completors,         \* DefaultCompletion.completors: the trigger of each completor
    candidates,         \* DefaultCompletion.candidates
    session,            \* DefaultCompletion.session
    commands,           \* the key filters registered with Editor.RegisterCommand
    cop,                \* history: the last DefaultCompletion call
    edit,               \* the Editor.SetCaret and Insert/InsertSnippet calls the
                        \* last DefaultCompletion call made
    popup,              \* the completors whose popup has its key commands registered,
                        \* and history: the popup layouts since the session ended
    editor,             \* the Editor: mode, snippetCtx, columnEdit, the document text,
                        \* the caret and autoInsertions
    eop,                \* history: the last Editor call or event
    view,               \* the text view behind the Editor: the scroll offset, the
                        \* sizes and the validity of its layout
    textLine,           \* a laid out Line and what recompute made of it
    search,             \* a word search: the text, the word and the occurrences
    gutter,             \* the gutter Manager: its providers and the cached widths and
                        \* bounds; history: its last call
    diff                \* the output of a diff and the hunks parsed from it

compVars == << completors, candidates, session, commands, cop, edit, popup >>
edVars == << editor, eop, view, textLine, search, gutter, diff >>

\* The PieceTable object as one value.
PT == [originalBuf |-> originalBuf, modifyBuf |-> modifyBuf, pieces |-> pieces,
       seqLength |-> seqLength, seqBytes |-> seqBytes, undoStack |-> undoStack,
       redoStack |-> redoStack, lastAction |-> lastAction,
       lastActionEndIdx |-> lastActionEndIdx, lastInsertPiece |-> lastInsertPiece]

ptVars == << originalBuf, modifyBuf, pieces, seqLength, seqBytes, undoStack,
             redoStack, lastAction, lastActionEndIdx, lastInsertPiece >>

\* The PieceTable object becomes s.
SetPT(s) ==
    /\ originalBuf' = s.originalBuf
    /\ modifyBuf' = s.modifyBuf
    /\ pieces' = s.pieces
    /\ seqLength' = s.seqLength
    /\ seqBytes' = s.seqBytes
    /\ undoStack' = s.undoStack
    /\ redoStack' = s.redoStack
    /\ lastAction' = s.lastAction
    /\ lastActionEndIdx' = s.lastActionEndIdx
    /\ lastInsertPiece' = s.lastInsertPiece

\* The PieceTable object is constructed as s.
NewPT(s) ==
    /\ originalBuf = s.originalBuf
    /\ modifyBuf = s.modifyBuf
    /\ pieces = s.pieces
    /\ seqLength = s.seqLength
    /\ seqBytes = s.seqBytes
    /\ undoStack = s.undoStack
    /\ redoStack = s.redoStack
    /\ lastAction = s.lastAction
    /\ lastActionEndIdx = s.lastActionEndIdx
    /\ lastInsertPiece = s.lastInsertPiece

\* ------------------------------------------------------------ UTF-8 text
Min(a, b) == IF a < b THEN a ELSE b
Max(a, b) == IF a > b THEN a ELSE b

IsCont(b) == b >= 128 /\ b <= 191

\* utf8.RuneCountInString for valid UTF-8.
RuneCount(t) == Cardinality({ i \in 1..Len(t) : ~IsCont(t[i]) })

\* textBuffer.RuneOffset: the byte offset of the rune at runeIdx.
bufRuneOffset(buf, runeIdx) ==
    IF runeIdx >= RuneCount(buf) THEN Len(buf)
    ELSE CHOOSE i \in 0..(Len(buf) - 1) :
            ~IsCont(buf[i + 1]) /\ RuneCount(SubSeq(buf, 1, i)) = runeIdx

\* textBuffer.bytesForRange: the bytes taken by runeCnt runes from runeOff.
bytesForRange(buf, runeOff, runeCnt) ==
    bufRuneOffset(buf, runeOff + runeCnt) - bufRuneOffset(buf, runeOff)

\* textBuffer.getTextByRange: size bytes starting at byteOff.
getTextByRange(buf, byteOff, size) ==
    SubSeq(buf, byteOff + 1, Min(byteOff + size, Len(buf)))

\* PieceTable.getBuf
getBuf(s, source) == IF source = "original" THEN s.originalBuf ELSE s.modifyBuf

\* PieceTable.addToBuffer for the modify buffer: the new buffer and
\* (rune offset, byte offset, rune count) of the appended text.
addToBuffer(s, text) ==
    IF Len(text) <= 0
    THEN [buf |-> s.modifyBuf, runeOff |-> 0, byteOff |-> 0, runes |-> 0]
    ELSE [buf |-> s.modifyBuf \o text, runeOff |-> RuneCount(s.modifyBuf),
          byteOff |-> Len(s.modifyBuf), runes |-> RuneCount(text)]

\* ------------------------------------------------------------ piece list
Sentinel == [source |-> "original", offset |-> 0, length |-> 0, byteOff |-> 0,
             byteLength |-> 0, next |-> Nil, prev |-> Nil]

\* newPieceList: head and tail sentinels linked to each other.
newPieceList ==
    << [Sentinel EXCEPT !.next = TailId], [Sentinel EXCEPT !.prev = HeadId] >>

\* The linked pieces from n up to the tail, in the order the loops
\* `for n := pieces.Head(); n != pieces.tail; n = n.next` visit them.
RECURSIVE WalkFrom(_, _, _)
WalkFrom(h, n, fuel) ==
    IF n = TailId \/ n = Nil \/ fuel = 0 THEN <<>>
    ELSE <<n>> \o WalkFrom(h, h[n].next, fuel - 1)

Walk(h) == WalkFrom(h, h[HeadId].next, Len(h))

\* The walk reaches the tail (no nil dereference, no cycle).
RECURSIVE WalkEnds(_, _, _)
WalkEnds(h, n, fuel) ==
    IF n = TailId THEN TRUE
    ELSE IF n = Nil \/ fuel = 0 THEN FALSE
    ELSE WalkEnds(h, h[n].next, fuel - 1)

\* pieceList.FindPiece: the piece holding runeIndex and the offset in it;
\* the tail when runeIndex is at or past the end of the list.
RECURSIVE FindFrom(_, _, _, _)
FindFrom(h, w, runes, runeIndex) ==
    IF w = <<>> THEN [piece |-> TailId, off |-> 0]
    ELSE IF runes + h[Head(w)].length > runeIndex
         THEN [piece |-> Head(w), off |-> runeIndex - runes]
         ELSE FindFrom(h, Tail(w), runes + h[Head(w)].length, runeIndex)

FindPiece(h, runeIndex) == FindFrom(h, Walk(h), 0, runeIndex)

\* ------------------------------------------------------------ piece range
\* newUndoPieceRange(seqLength, seqBytes, runeIndex)
newUndoPieceRange(len, bytes, idx) ==
    [first |-> Nil, last |-> Nil, boundary |-> TRUE,
     seqLength |-> len, seqBytes |-> bytes, index |-> idx]

\* pieceRange.AsBoundary: the empty range between target.prev and target.
AsBoundary(h, r, target) ==
    [r EXCEPT !.first = h[target].prev, !.last = target, !.boundary = TRUE]

\* pieceRange.Swap: unlink the range p from the list and link dest in its place.
Swap(h, p, dest) ==
    IF p.boundary
    THEN [h EXCEPT ![p.first].next = dest.first,
                   ![p.last].prev = dest.last,
                   ![dest.first].prev = p.first,
                   ![dest.last].next = p.last]
    ELSE [h EXCEPT ![h[p.first].prev].next = dest.first,
                   ![h[p.last].next].prev = dest.last,
                   ![dest.first].prev = h[p.first].prev,
                   ![dest.last].next = h[p.last].next]

\* pieceRange.Restore: replay the linkage the range had when it was captured.
Restore(h, r) ==
    IF r.boundary
    THEN [h EXCEPT ![r.first].next = r.last, ![r.last].prev = r.first]
    ELSE [h EXCEPT ![h[r.first].prev].next = r.first,
                   ![h[r.last].next].prev = r.last]

\* ---------------------------------------------------------------- reader
\* The piece loop of PieceTableReader.ReadAt: want is the room left in p,
\* bytes the byte length of the pieces already passed.
RECURSIVE ReadLoop(_, _, _, _, _, _)
ReadLoop(s, w, bytes, offset, want, acc) ==
    IF w = <<>> THEN acc
    ELSE LET n == s.pieces[Head(w)]
             b == bytes + n.byteLength
         IN IF b > offset
            THEN LET fragment == getTextByRange(getBuf(s, n.source),
                                     n.byteOff + n.byteLength - (b - offset), b - offset)
                     c == Min(want, Len(fragment))
                 IN IF c >= want
                    THEN acc \o SubSeq(fragment, 1, c)
                    ELSE ReadLoop(s, Tail(w), b, offset + c, want - c,
                                  acc \o SubSeq(fragment, 1, c))
            ELSE ReadLoop(s, Tail(w), b, offset, want, acc)

\* PieceTableReader.ReadAt with a buffer of size bytes: the bytes read and
\* the error ("nil" or "EOF").
ReadAt(s, size, offset) ==
    IF size = 0 THEN [data |-> <<>>, err |-> "nil"]
    ELSE IF offset >= s.seqBytes THEN [data |-> <<>>, err |-> "EOF"]
    ELSE LET d == ReadLoop(s, Walk(s.pieces), 0, offset, size, <<>>)
         IN [data |-> d, err |-> IF Len(d) < size THEN "EOF" ELSE "nil"]

\* PieceTableReader.Text: seek to 0 and io.ReadFull a buffer of seqBytes bytes.
TextOf(s) == ReadAt(s, s.seqBytes, 0).data

Text == TextOf(PT)

\* ------------------------------------------------------------ operations
\* PieceTable.init, called by NewPieceTable(text).
init(text) ==
    LET empty == [originalBuf |-> text, modifyBuf |-> <<>>, pieces |-> newPieceList,
                  seqLength |-> 0, seqBytes |-> 0, undoStack |-> <<>>,
                  redoStack |-> <<>>, lastAction |-> "unknown",
                  lastActionEndIdx |-> 0, lastInsertPiece |-> Nil]
    IN IF RuneCount(text) <= 0 THEN empty
       ELSE [empty EXCEPT
               !.pieces = << [Sentinel EXCEPT !.next = 3],
                             [Sentinel EXCEPT !.prev = 3],
                             [source |-> "original", offset |-> 0,
                              length |-> RuneCount(text), byteOff |-> 0,
                              byteLength |-> Len(text), next |-> TailId,
                              prev |-> HeadId] >>,
               !.seqLength = RuneCount(text),
               !.seqBytes = Len(text)]

\* PieceTable.recordAction
recordAction(s, action, runeIndex) ==
    [s EXCEPT !.lastAction = action, !.lastActionEndIdx = runeIndex]

\* tryAppendToLastPiece without the test on the rune count of the text.
tryAppendToLastPiece_AnyLength(s, runeIndex, text) ==
    IF \/ s.lastAction # "insert"
       \/ runeIndex # s.lastActionEndIdx
       \/ s.lastInsertPiece = Nil
    THEN [ok |-> FALSE, st |-> s]
    ELSE LET a == addToBuffer(s, text)
         IN [ok |-> TRUE,
             st |-> recordAction(
                 [s EXCEPT !.modifyBuf = a.buf,
                           !.pieces[s.lastInsertPiece].length = @ + a.runes,
                           !.pieces[s.lastInsertPiece].byteLength = @ + Len(text),
                           !.seqLength = @ + a.runes,
                           !.seqBytes = @ + Len(text)],
                 "insert", runeIndex + a.runes)]

\* PieceTable.tryAppendToLastPiece: whether the insert was merged into the
\* last inserted piece, and the table after the call.
tryAppendToLastPiece(s, runeIndex, text) ==
    IF \/ s.lastAction # "insert"
       \/ runeIndex # s.lastActionEndIdx
       \/ s.lastInsertPiece = Nil
       \/ RuneCount(text) > 1
    THEN [ok |-> FALSE, st |-> s]
    ELSE LET a == addToBuffer(s, text)
         IN [ok |-> TRUE,
             st |-> recordAction(
                 [s EXCEPT !.modifyBuf = a.buf,
                           !.pieces[s.lastInsertPiece].length = @ + a.runes,
                           !.pieces[s.lastInsertPiece].byteLength = @ + Len(text),
                           !.seqLength = @ + a.runes,
                           !.seqBytes = @ + Len(text)],
                 "insert", runeIndex + a.runes)]

\* PieceTable.insertAtBoundary
insertAtBoundary(s, runeIndex, text, oldPiece) ==
    LET a == addToBuffer(s, text)
        id == Len(s.pieces) + 1
        newPiece == [source |-> "modify", offset |-> a.runeOff, length |-> a.runes,
                     byteOff |-> a.byteOff, byteLength |-> Len(text),
                     next |-> Nil, prev |-> Nil]
        h1 == Append(s.pieces, newPiece)
        oldPieces == AsBoundary(h1, newUndoPieceRange(s.seqLength, s.seqBytes, runeIndex),
                                oldPiece)
        newPieces == [first |-> id, last |-> id, boundary |-> FALSE]
    IN recordAction(
         [s EXCEPT !.modifyBuf = a.buf,
                   !.lastInsertPiece = id,
                   !.undoStack = Append(@, oldPieces),
                   !.pieces = Swap(h1, oldPieces, newPieces),
                   !.seqLength = @ + a.runes,
                   !.seqBytes = @ + Len(text)],
         "insert", runeIndex + a.runes)

\* PieceTable.insertInMiddle
insertInMiddle(s, runeIndex, text, oldPiece, inRuneOff) ==
    LET a == addToBuffer(s, text)
        old == s.pieces[oldPiece]
        buf == getBuf(s, old.source)
        left == Len(s.pieces) + 1
        mid == Len(s.pieces) + 2
        right == Len(s.pieces) + 3
        leftPiece == [source |-> old.source, offset |-> old.offset, length |-> inRuneOff,
                      byteOff |-> old.byteOff,
                      byteLength |-> bytesForRange(buf, old.offset, inRuneOff),
                      next |-> mid, prev |-> Nil]
        newPiece == [source |-> "modify", offset |-> a.runeOff, length |-> a.runes,
                     byteOff |-> a.byteOff, byteLength |-> Len(text),
                     next |-> right, prev |-> left]
        rightPiece == [source |-> old.source, offset |-> old.offset + inRuneOff,
                       length |-> old.length - inRuneOff,
                       byteOff |-> bufRuneOffset(buf, old.offset + inRuneOff),
                       byteLength |-> bytesForRange(buf, old.offset + inRuneOff,
                                                    old.length - inRuneOff),
                       next |-> Nil, prev |-> mid]
        h1 == s.pieces \o << leftPiece, newPiece, rightPiece >>
        oldPieces == [newUndoPieceRange(s.seqLength, s.seqBytes, runeIndex)
                        EXCEPT !.first = oldPiece, !.last = oldPiece, !.boundary = FALSE]
        newPieces == [first |-> left, last |-> right, boundary |-> FALSE]
    IN recordAction(
         [s EXCEPT !.modifyBuf = a.buf,
                   !.lastInsertPiece = mid,
                   !.undoStack = Append(@, oldPieces),
                   !.pieces = Swap(h1, oldPieces, newPieces),
                   !.seqLength = @ + a.runes,
                   !.seqBytes = @ + Len(text)],
         "insert", runeIndex + a.runes)

\* Insert with the upper bound on runeIndex off by one.
Insert_NoUpperBound(s, runeIndex, text) ==
    IF runeIndex > s.seqLength + 1 \/ runeIndex < 0
    THEN [ok |-> FALSE, st |-> s, kind |-> "rejected"]
    ELSE LET s1 == [s EXCEPT !.redoStack = <<>>]
             m == tryAppendToLastPiece(s1, runeIndex, text)
             f == FindPiece(s1.pieces, runeIndex)
         IN IF m.ok THEN [ok |-> TRUE, st |-> m.st, kind |-> "append"]
            ELSE IF f.off = 0
            THEN [ok |-> TRUE, kind |-> "boundary",
                  st |-> insertAtBoundary(s1, runeIndex, text, f.piece)]
            ELSE [ok |-> TRUE, kind |-> "middle",
                  st |-> insertInMiddle(s1, runeIndex, text, f.piece, f.off)]

\* Insert without the clearing of the redo stack.
Insert_KeepRedo(s, runeIndex, text) ==
    IF runeIndex > s.seqLength \/ runeIndex < 0
    THEN [ok |-> FALSE, st |-> s, kind |-> "rejected"]
    ELSE LET m == tryAppendToLastPiece(s, runeIndex, text)
             f == FindPiece(s.pieces, runeIndex)
         IN IF m.ok THEN [ok |-> TRUE, st |-> m.st, kind |-> "append"]
            ELSE IF f.off = 0
            THEN [ok |-> TRUE, kind |-> "boundary",
                  st |-> insertAtBoundary(s, runeIndex, text, f.piece)]
            ELSE [ok |-> TRUE, kind |-> "middle",
                  st |-> insertInMiddle(s, runeIndex, text, f.piece, f.off)]

\* PieceTable.Insert(runeIndex, text): the returned bool, the table after
\* the call and the branch taken.
Insert(s, runeIndex, text) ==
    IF runeIndex > s.seqLength \/ runeIndex < 0
    THEN [ok |-> FALSE, st |-> s, kind |-> "rejected"]
    ELSE LET s1 == [s EXCEPT !.redoStack = <<>>]
             m == tryAppendToLastPiece(s1, runeIndex, text)
             f == FindPiece(s1.pieces, runeIndex)
         IN IF m.ok THEN [ok |-> TRUE, st |-> m.st, kind |-> "append"]
            ELSE IF f.off = 0
            THEN [ok |-> TRUE, kind |-> "boundary",
                  st |-> insertAtBoundary(s1, runeIndex, text, f.piece)]
            ELSE [ok |-> TRUE, kind |-> "middle",
                  st |-> insertInMiddle(s1, runeIndex, text, f.piece, f.off)]

\* PieceTable.restorePieceRange
restorePieceRange(s, rng) ==
    [s EXCEPT !.pieces = Restore(@, rng),
              !.seqLength = rng.seqLength,
              !.seqBytes = rng.seqBytes]

\* PieceTable.undoRedo with src the undo stack and dest the redo stack
\* (undo = TRUE) or the other way round: the returned bool and the table.
undoRedo(s, undo) ==
    LET src == IF undo THEN s.undoStack ELSE s.redoStack
        dest == IF undo THEN s.redoStack ELSE s.undoStack
        rng == src[Len(src)]
        src1 == SubSeq(src, 1, Len(src) - 1)
        dest1 == Append(dest, rng)
    IN IF Len(src) <= 0 THEN [ok |-> FALSE, st |-> s]
       ELSE [ok |-> TRUE,
             st |-> restorePieceRange(
                      [s EXCEPT !.undoStack = IF undo THEN src1 ELSE dest1,
                                !.redoStack = IF undo THEN dest1 ELSE src1],
                      rng)]

\* PieceTable.Undo
Undo(s) == undoRedo(s, TRUE)

\* PieceTable.Redo
Redo(s) == undoRedo(s, FALSE)

\* PieceTable.Erase: the body is empty.
Erase(s) == s

\* PieceTable.Replace: the body is empty.
Replace(s) == s

\* --------------------------------------------------------- rune reading
\* utf8.DecodeRune for runes of one or two bytes: the rune and its width;
\* (RuneError, 0) for an empty slice, (RuneError, 1) for a broken encoding.
DecodeRune(b) ==
    IF Len(b) = 0 THEN [r |-> RuneError, size |-> 0]
    ELSE IF b[1] < 128 THEN [r |-> b[1], size |-> 1]
    ELSE IF b[1] >= 194 /\ b[1] <= 223 /\ Len(b) >= 2 /\ IsCont(b[2])
         THEN [r |-> (b[1] - 192) * 64 + (b[2] - 128), size |-> 2]
         ELSE [r |-> RuneError, size |-> 1]

\* utf8.DecodeLastRune for runes of one or two bytes.
DecodeLastRune(b) ==
    LET n == Len(b) IN
    IF n = 0 THEN [r |-> RuneError, size |-> 0]
    ELSE IF b[n] < 128 THEN [r |-> b[n], size |-> 1]
    ELSE IF IsCont(b[n]) /\ n >= 2 /\ b[n - 1] >= 194 /\ b[n - 1] <= 223
         THEN [r |-> (b[n - 1] - 192) * 64 + (b[n] - 128), size |-> 2]
         ELSE [r |-> RuneError, size |-> 1]

\* The piece loop of PieceTableReader.RuneOffset.
RECURSIVE RuneOffsetLoop(_, _, _, _, _)
RuneOffsetLoop(s, w, bytes, runes, runeOff) ==
    IF w = <<>> THEN bytes
    ELSE LET n == s.pieces[Head(w)]
         IN IF runes + n.length > runeOff
            THEN bytes + bytesForRange(getBuf(s, n.source), n.offset, runeOff - runes)
            ELSE RuneOffsetLoop(s, Tail(w), bytes + n.byteLength, runes + n.length,
                                runeOff)

\* RuneOffset answering with the rune length instead of the byte size
\* past the end.
RuneOffset_RuneEnd(s, runeOff) ==
    IF s.seqLength = 0 THEN 0
    ELSE IF runeOff >= s.seqLength THEN s.seqLength
    ELSE RuneOffsetLoop(s, Walk(s.pieces), 0, 0, runeOff)

\* PieceTableReader.RuneOffset
RuneOffset(s, runeOff) ==
    IF s.seqLength = 0 THEN 0
    ELSE IF runeOff >= s.seqLength THEN s.seqBytes
    ELSE RuneOffsetLoop(s, Walk(s.pieces), 0, 0, runeOff)

\* PieceTableReader.ReadRuneAtBytes: the rune, its width and the error.
ReadRuneAtBytes(s, off) ==
    LET rd == ReadAt(s, 4, off)
        d == DecodeRune(rd.data)
    IN [r |-> d.r, size |-> d.size,
        err |-> IF rd.err = "EOF" /\ Len(rd.data) > 0 THEN "nil" ELSE rd.err]

\* PieceTableReader.ReadRuneAt
ReadRuneAt(s, runeOff) ==
    LET x == ReadRuneAtBytes(s, RuneOffset(s, runeOff))
    IN [r |-> x.r, err |-> x.err]

\* PieceTableReader.ReadRuneBeforeBytes
ReadRuneBeforeBytes(s, off) ==
    LET rd == IF off < 4 THEN ReadAt(s, off, 0) ELSE ReadAt(s, 4, off - 4)
        d == DecodeLastRune(rd.data)
    IN [r |-> d.r, size |-> d.size, err |-> rd.err]

\* PieceTableReader.parseLine: the lines of one piece's text.
RECURSIVE parseLineFrom(_, _, _)
parseLineFrom(text, i, n) ==
    IF i > Len(text)
    THEN IF n > 0 THEN << [length |-> n, hasLineBreak |-> FALSE] >> ELSE <<>>
    ELSE IF IsCont(text[i]) THEN parseLineFrom(text, i + 1, n)
    ELSE IF text[i] = lineBreak
         THEN << [length |-> n + 1, hasLineBreak |-> TRUE] >>
              \o parseLineFrom(text, i + 1, 0)
         ELSE parseLineFrom(text, i + 1, n + 1)

parseLine(text) == parseLineFrom(text, 1, 0)

\* The piece loop of Lines without the merge of an unterminated last line.
RECURSIVE LinesLoop_NoMerge(_, _, _)
LinesLoop_NoMerge(s, w, acc) ==
    IF w = <<>> THEN acc
    ELSE LET n == s.pieces[Head(w)]
             ls == parseLine(getTextByRange(getBuf(s, n.source), n.byteOff, n.byteLength))
         IN LinesLoop_NoMerge(s, Tail(w), acc \o ls)

\* The piece loop of PieceTableReader.Lines: acc is r.lines so far.
RECURSIVE LinesLoop(_, _, _)
LinesLoop(s, w, acc) ==
    IF w = <<>> THEN acc
    ELSE LET n == s.pieces[Head(w)]
             ls == parseLine(getTextByRange(getBuf(s, n.source), n.byteOff, n.byteLength))
         IN IF Len(ls) > 0
            THEN IF Len(acc) > 0 /\ ~acc[Len(acc)].hasLineBreak
                 THEN LinesLoop(s, Tail(w),
                        SubSeq(acc, 1, Len(acc) - 1)
                        \o << [ls[1] EXCEPT !.length = @ + acc[Len(acc)].length] >>
                        \o Tail(ls))
                 ELSE LinesLoop(s, Tail(w), acc \o ls)
            ELSE LinesLoop(s, Tail(w), acc)

\* PieceTableReader.Lines(): the cache it leaves in r.lines.
Lines(s) == LinesLoop(s, Walk(s.pieces), <<>>)

\* ------------------------------------------------- reference string
\* The reference string after inserting text at rune index runeIndex.
RefInsert(t, runeIndex, text) ==
    LET b == bufRuneOffset(t, runeIndex)
    IN SubSeq(t, 1, b) \o text \o SubSeq(t, b + 1, Len(t))

\* The reference string with the runes [start, end) removed.
RefErase(t, start, end) ==
    SubSeq(t, 1, bufRuneOffset(t, start)) \o SubSeq(t, bufRuneOffset(t, end) + 1, Len(t))

\* ----------------------------------------------------------------- steps
\* The value of runBefore when an Undo or a Redo has ended the run of inserts.
NoRun == << -1 >>

\* The record of a call: its name, the returned bool, the branch Insert
\* took, the runes of the inserted text, whether the index was the end
\* index of the previous insert, and the undo entries the call pushed.
Call(name, ok) ==
    [name |-> name, ok |-> ok, kind |-> "none", runes |-> 0, atEnd |-> FALSE,
     pushed |-> 0]

NoOp == Call("New", TRUE)

\* A call of Insert(runeIndex, text).
InsertStep(runeIndex, text) ==
    \E r \in { Insert(PT, runeIndex, text) } :
          /\ SetPT(r.st)
          /\ op' = [name |-> "Insert", ok |-> r.ok, kind |-> r.kind,
                    runes |-> RuneCount(text),
                    atEnd |-> (lastAction = "insert" /\ runeIndex = lastActionEndIdx),
                    pushed |-> Len(r.st.undoStack) - Len(undoStack)]
          /\ runBefore' = IF r.kind = "rejected" \/ (r.kind = "append" /\ runBefore # NoRun)
                          THEN runBefore ELSE Text
          /\ typing' = (typing /\ RuneCount(text) = 1 /\ runeIndex = seqLength
                                /\ (lastAction = "insert" => runeIndex = lastActionEndIdx))

\* A call of Undo().
UndoStep ==
    \E r \in { Undo(PT) } :
          /\ SetPT(r.st)
          /\ op' = Call("Undo", r.ok)
          /\ runBefore' = IF r.ok THEN NoRun ELSE runBefore
          /\ typing' = FALSE

\* A call of Redo().
RedoStep ==
    \E r \in { Redo(PT) } :
          /\ SetPT(r.st)
          /\ op' = Call("Redo", r.ok)
          /\ runBefore' = IF r.ok THEN NoRun ELSE runBefore
          /\ typing' = FALSE

\* A call of Erase() where the caller means to erase the runes [start, end):
\* the reference string loses them.
EraseStep(start, end) ==
    /\ SetPT(Erase(PT))
    /\ op' = Call("Erase", TRUE)
    /\ ref' = RefErase(ref, start, end)
    /\ typing' = FALSE
    /\ UNCHANGED runBefore

\* A call of Replace() where the caller means to replace the runes
\* [start, end) by text: the reference string has them replaced.
ReplaceStep(start, end, text) ==
    /\ SetPT(Replace(PT))
    /\ op' = Call("Replace", TRUE)
    /\ ref' = RefInsert(RefErase(ref, start, end), start, text)
    /\ typing' = FALSE
    /\ UNCHANGED runBefore

\* The reference string follows a call of Insert(runeIndex, text).
RefFollowsInsert(runeIndex, text) ==
    ref' = IF Insert(PT, runeIndex, text).ok THEN RefInsert(ref, runeIndex, text) ELSE ref

vars == << originalBuf, modifyBuf, pieces, seqLength, seqBytes, undoStack,
           redoStack, lastAction, lastActionEndIdx, lastInsertPiece,
           ref, op, calls, runBefore, typing, res,
           completors, candidates, session, commands, cop, edit, popup,
           editor, eop, view, textLine, search, gutter, diff >>

NoRes == [fn |-> "none", arg |-> 0, val |-> 0]

\* The history variables right after construction with the document text.
NewHistory(text) ==
    /\ ref = text
    /\ runBefore = text
    /\ typing = (text = <<>>)
    /\ op = NoOp
    /\ calls = 0
    /\ res = NoRes

\* ------------------------------------------------------------ completion
\* gvcode.Position, gvcode.EditRange and gvcode.CompletionContext zero values.
ZeroPos == [Line |-> 0, Column |-> 0, Runes |-> 0]
ZeroRange == [Start |-> ZeroPos, End |-> ZeroPos]
ZeroCtx == [Input |-> <<>>, Position |-> ZeroPos]

\* A nil *session.
NilSession ==
    [exists |-> FALSE, triggerKind |-> "autoTrigger", completor |-> 0,
     triggered |-> FALSE, triggerChars |-> <<>>, canceled |-> FALSE,
     prefix |-> <<>>, prefixRange |-> ZeroRange, candidates |-> <<>>,
     ctx |-> ZeroCtx]

\* The DefaultCompletion object as one value.
DC == [completors |-> completors, candidates |-> candidates, session |-> session,
       commands |-> commands]

\* The DefaultCompletion object becomes d.
SetDC(d) ==
    /\ completors' = d.completors
    /\ candidates' = d.candidates
    /\ session' = d.session
    /\ commands' = d.commands

\* The record of a DefaultCompletion call: its name, the input of OnText,
\* whether a session was active before it, whether newSession ran in it, and
\* whether an error was returned.
NoCall == [name |-> "New", input |-> <<>>, wasActive |-> FALSE, started |-> FALSE,
           err |-> FALSE, idx |-> 0]

\* No call was made on the editor.
NoEdit == [called |-> FALSE, start |-> 0, end |-> 0, text |-> <<>>, snippet |-> FALSE]

\* No popup has its commands registered.
NoPopup == [attached |-> {}, idle |-> 0]

\* A DefaultCompletion with no completor, attached to an editor.
NewCompletion ==
    /\ completors = <<>>
    /\ candidates = <<>>
    /\ session = NilSession
    /\ commands = <<>>
    /\ cop = NoCall
    /\ edit = NoEdit
    /\ popup = NoPopup

\* EditorMode
ModeNormal == "ModeNormal"
ModeReadOnly == "ModeReadOnly"
ModeSnippet == "ModeSnippet"
ModeColumnEdit == "ModeColumnEdit"
Modes == { ModeNormal, ModeReadOnly, ModeSnippet, ModeColumnEdit }

\* An Editor in normal mode over the document text, the caret at its start:
\* no snippet context, no column cursor, no tracked auto-insertion.
NewEditorRec(text) ==
    [mode |-> ModeNormal, snippetCtx |-> FALSE,
     columnEdit |-> [enabled |-> FALSE, selections |-> <<>>,
                     anchor |-> [X |-> 0, Y |-> 0]],
     text |-> text, caret |-> [start |-> 0, end |-> 0],
     autoInsertions |-> {}]

\* The selection actions of the caret motions.
selectionClear == "Clear"
selectionExtend == "Extend"

\* The record of an Editor or text view call or event: its name, and the
\* mode, the text, the flag, the pointer position and the selection action
\* it was given.
NoEdCall ==
    [name |-> "New", mode |-> ModeNormal, text |-> <<>>, flag |-> FALSE,
     pos |-> [X |-> 0, Y |-> 0], selAct |-> selectionClear,
     invalidations |-> 0, auto |-> << >>]

\* A text view over an empty document that was not laid out yet: the
\* document, the caret, the grapheme cluster boundaries of the last layout,
\* the validity of the layout and the number of layouts of the last call, the scroll
\* offset, the size of the laid out document and the size of the viewport.
NewView ==
    [text |-> <<>>, caret |-> [start |-> 0, end |-> 0, xoff |-> 0],
     graphemes |-> <<>>, valid |-> FALSE, layouts |-> 0,
     scrollOff |-> [X |-> 0, Y |-> 0], dims |-> [X |-> 0, Y |-> 0],
     viewSize |-> [X |-> 0, Y |-> 0]]

\* No Line yet.
NoLine == [Glyphs |-> <<>>, RuneOff |-> 0]

\* gutter.NewManager
NewManager ==
    [providers |-> << >>, totalWidth |-> 0, providerBounds |-> {},
     providerWidths |-> {},
     call |-> [name |-> "New", id |-> "", priority |-> 0]]

\* No output of a diff yet.
NoDiff == [made |-> << >>, lines |-> << >>, hunks |-> << >>]

\* No word search yet.
NoSearch ==
    [text |-> <<>>, start |-> 0, end |-> 0, bySpace |-> FALSE,
     occurrences |-> <<>>]

NewEditor(text) ==
    /\ editor = NewEditorRec(text)
    /\ eop = NoEdCall
    /\ view = NewView
    /\ textLine = NoLine
    /\ search = NoSearch
    /\ gutter = NewManager
    /\ diff = NoDiff

\* isSymbolChar: ASCII letters, digits and the underscore.
isSymbolChar(ch) ==
    \/ (ch >= 97 /\ ch <= 122)
    \/ (ch >= 65 /\ ch <= 90)
    \/ (ch >= 48 /\ ch <= 57)
    \/ ch = 95

\* canTrigger without the symbol character rule.
canTrigger_CharsOnly(tr, input) == input \in tr.Characters

\* canTrigger(tr, input) for a non-empty input.
canTrigger(tr, input) ==
    IF input \in tr.Characters THEN TRUE ELSE isSymbolChar(input[1])

\* terminatingChars: { } ( ) , ; space newline tab .
terminatingChars == << 123, 125, 40, 41, 44, 59, 32, 10, 9, 46 >>

\* hasTerminateChar with '.' missing from the terminating characters.
hasTerminateChar_NoDot(input) ==
    IF input = <<>> THEN FALSE
    ELSE \E k \in 1..Len(terminatingChars) :
            terminatingChars[k] = input[1] /\ terminatingChars[k] # 46

\* hasTerminateChar
hasTerminateChar(input) ==
    IF input = <<>> THEN FALSE
    ELSE \E k \in 1..Len(terminatingChars) : terminatingChars[k] = input[1]

\* newSession(completor, kind)
newSession(completor, kind) ==
    [NilSession EXCEPT !.exists = TRUE, !.triggerKind = kind,
                       !.completor = completor, !.triggered = TRUE]

\* session.makeInvalid
makeInvalid(s) ==
    [s EXCEPT !.canceled = TRUE, !.prefix = <<>>, !.prefixRange = ZeroRange,
              !.candidates = <<>>]

\* session.IsValid
IsValid(s) == s.exists /\ ~s.canceled

\* Completor.FilterAndRank(prefix, candidates) of a completor that keeps the
\* first keep candidates.
FilterAndRank(cands, keep) == SubSeq(cands, 1, Min(keep, Len(cands)))

\* session.Update moving the start of the prefix range on every symbol input.
Update_StartEveryInput(s, ctx, sug, keep) ==
    IF s.canceled THEN [sess |-> s, out |-> <<>>]
    ELSE LET s1 == IF s.triggered
                   THEN [s EXCEPT !.candidates = sug, !.triggerChars = ctx.Input,
                                  !.triggered = FALSE, !.prefix = <<>>,
                                  !.prefixRange = ZeroRange]
                   ELSE s
         IN IF hasTerminateChar(ctx.Input) /\ ctx.Input # s1.triggerChars
            THEN [sess |-> makeInvalid(s1), out |-> <<>>]
            ELSE LET s2 == [s1 EXCEPT !.ctx = ctx]
                     start == [ctx.Position EXCEPT
                                 !.Column = Max(0, ctx.Position.Column
                                                   - RuneCount(ctx.Input)),
                                 !.Runes = 0]
                     s3 == IF ctx.Input # <<>> /\ isSymbolChar(ctx.Input[1])
                           THEN [s2 EXCEPT
                                   !.prefix = @ \o ctx.Input,
                                   !.prefixRange =
                                      [Start |-> start,
                                       End |-> [ctx.Position EXCEPT !.Runes = 0]]]
                           ELSE s2
                 IN [sess |-> s3, out |-> FilterAndRank(s3.candidates, keep)]

\* session.Update(ctx): the session after the call and the returned
\* candidates; sug is what Completor.Suggest(ctx) returns.
Update(s, ctx, sug, keep) ==
    IF s.canceled THEN [sess |-> s, out |-> <<>>]
    ELSE LET s1 == IF s.triggered
                   THEN [s EXCEPT !.candidates = sug, !.triggerChars = ctx.Input,
                                  !.triggered = FALSE, !.prefix = <<>>,
                                  !.prefixRange = ZeroRange]
                   ELSE s
         IN IF hasTerminateChar(ctx.Input) /\ ctx.Input # s1.triggerChars
            THEN [sess |-> makeInvalid(s1), out |-> <<>>]
            ELSE LET s2 == [s1 EXCEPT !.ctx = ctx]
                     start == [ctx.Position EXCEPT
                                 !.Column = Max(0, ctx.Position.Column
                                                   - RuneCount(ctx.Input)),
                                 !.Runes = 0]
                     s3 == IF ctx.Input # <<>> /\ isSymbolChar(ctx.Input[1])
                           THEN [s2 EXCEPT
                                   !.prefix = @ \o ctx.Input,
                                   !.prefixRange =
                                      [Start |-> IF s2.prefixRange = ZeroRange
                                                 THEN start ELSE s2.prefixRange.Start,
                                       End |-> [ctx.Position EXCEPT !.Runes = 0]]]
                           ELSE s2
                 IN [sess |-> s3, out |-> FilterAndRank(s3.candidates, keep)]

\* DefaultCompletion.updateCandidates
updateCandidates(d, cands) == [d EXCEPT !.candidates = cands]

\* DefaultCompletion.IsActive
IsActive(d) == d.session.exists /\ IsValid(d.session)

\* DefaultCompletion.Cancel
Cancel(d) ==
    [d EXCEPT !.session = IF d.session.exists /\ IsValid(d.session)
                          THEN makeInvalid(d.session) ELSE d.session,
              !.candidates = <<>>]

\* The first completor, in registration order, that canTrigger accepts for
\* input; 0 when there is none.
firstTriggered(d, input) ==
    LET hits == { k \in 1..Len(d.completors) : canTrigger(d.completors[k], input) }
    IN IF hits = {} THEN 0 ELSE CHOOSE k \in hits : \A j \in hits : k <= j

\* DefaultCompletion.OnText(ctx): the object after the call, and whether
\* the call made a new session.
OnTextRun(d, ctx, sug, keep) ==
    IF ctx.Input = <<>> THEN [st |-> Cancel(d), started |-> FALSE]
    ELSE LET u == Update(d.session, ctx, sug, keep)
             updated == d.session.exists /\ IsValid(d.session)
             d1 == IF updated
                   THEN updateCandidates([d EXCEPT !.session = u.sess], u.out)
                   ELSE d
             completor == firstTriggered(d1, ctx.Input)
             s2 == IF ~d1.session.exists \/ ~IsValid(d1.session)
                   THEN newSession(completor, "charTrigger") ELSE d1.session
             u2 == Update(s2, ctx, sug, keep)
         IN IF updated /\ IsValid(d1.session) THEN [st |-> d1, started |-> FALSE]
            ELSE IF completor # 0
                 THEN [st |-> updateCandidates([d1 EXCEPT !.session = u2.sess], u2.out),
                       started |-> ~d1.session.exists \/ ~IsValid(d1.session)]
                 ELSE [st |-> d1, started |-> FALSE]

\* DefaultCompletion.OnText(ctx)
OnText(d, ctx, sug, keep) == OnTextRun(d, ctx, sug, keep).st

\* The runes of every line of the editor's document, line break included.
DocLineRunes == 4

\* Editor.ConvertPos(line, col): the rune offset of a line/column position.
ConvertPos(line, col) == line * DocLineRunes + col

\* strings.ToLower on the text formats in use.
ToLower(f) == IF f = "Snippet" THEN "snippet" ELSE f

\* mergeRange(r1, r2)
mergeRange(r1, r2) ==
    IF r1 = ZeroRange THEN r2
    ELSE IF r2 = ZeroRange THEN r1
    ELSE IF r1.Start.Line # r2.Start.Line \/ r1.End.Line # r2.End.Line THEN r1
    ELSE [Start |-> IF r2.Start.Column < r1.Start.Column THEN r2.Start ELSE r1.Start,
          End |-> IF r2.End.Column > r1.End.Column THEN r2.End ELSE r1.End]

\* OnConfirm without the closing Cancel.
OnConfirm_NoCancel(d, idx) ==
    IF idx < 0 \/ idx >= Len(d.candidates) THEN [st |-> d, edit |-> NoEdit]
    ELSE [st |-> d,
          edit |-> [called |-> TRUE, start |-> 0, end |-> 0,
                    text |-> d.candidates[idx + 1].NewText, snippet |-> FALSE]]

\* DefaultCompletion.OnConfirm(idx) with dc.Editor set: the object after
\* the call, and the selection and text handed to the editor.
OnConfirm(d, idx) ==
    IF idx < 0 \/ idx >= Len(d.candidates) THEN [st |-> d, edit |-> NoEdit]
    ELSE LET candidate == d.candidates[idx + 1]
             editRange == mergeRange(candidate.EditRange, d.session.prefixRange)
             byPos == editRange.Start.Runes <= 0 /\ editRange.End.Runes <= 0
             caretStart == IF byPos
                           THEN ConvertPos(editRange.Start.Line, editRange.Start.Column)
                           ELSE editRange.Start.Runes
             caretEnd == IF byPos
                         THEN ConvertPos(editRange.End.Line, editRange.End.Column)
                         ELSE editRange.End.Runes
         IN [st |-> Cancel(d),
             edit |-> [called |-> TRUE, start |-> caretStart, end |-> caretEnd,
                       text |-> candidate.NewText,
                       snippet |-> ToLower(candidate.TextFormat) = "snippet"]]

\* gvcode.Trigger.ActivateOnKey: the event is the key binding of the trigger.
ActivateOnKey(tr, evt) ==
    tr.KeyName # "" /\ tr.KeyName = evt.Name /\ tr.KeyMods = evt.Modifiers

\* DefaultCompletion.onKey(evt): the object after the call, and whether the
\* call made a new session; ctx is what Editor.GetCompletionContext returns.
onKey(d, evt, ctx, sug, keep) ==
    LET d1 == Cancel(d)
        hits == { k \in 1..Len(d1.completors) : ActivateOnKey(d1.completors[k], evt) }
        cmp == IF hits = {} THEN 0 ELSE CHOOSE k \in hits : \A j \in hits : k <= j
        u == Update(newSession(cmp, "keyTrigger"), ctx, sug, keep)
    IN IF cmp = 0 THEN [st |-> d1, started |-> FALSE]
       ELSE [st |-> updateCandidates([d1 EXCEPT !.session = u.sess], u.out),
             started |-> TRUE]

\* AddCompletor that rejects a duplicate only of a key binding that is set.
AddCompletor_BoundKeysOnly(d, trigger) ==
    LET duplicatedKey == \E k \in 1..Len(d.completors) :
                            /\ trigger.KeyName # ""
                            /\ d.completors[k].KeyName = trigger.KeyName
                            /\ d.completors[k].KeyMods = trigger.KeyMods
    IN IF duplicatedKey THEN [err |-> TRUE, st |-> d]
       ELSE [err |-> FALSE, st |-> [d EXCEPT !.completors = Append(@, trigger)]]

\* DefaultCompletion.AddCompletor: whether an error was returned, and the
\* object after the call.
AddCompletor(d, trigger) ==
    LET duplicatedKey == \E k \in 1..Len(d.completors) :
                            /\ d.completors[k].KeyName = trigger.KeyName
                            /\ d.completors[k].KeyMods = trigger.KeyMods
        d1 == IF trigger.KeyName # "" /\ trigger.KeyMods # 0
              THEN [d EXCEPT !.commands = Append(@, [Name |-> trigger.KeyName,
                                                     Required |-> trigger.KeyMods])]
              ELSE d
    IN IF duplicatedKey THEN [err |-> TRUE, st |-> d]
       ELSE [err |-> FALSE, st |-> [d1 EXCEPT !.completors = Append(@, trigger)]]

\* The inputs of OnText: "", "f", "fo", ".", " " and "#".
Inputs == { <<>>, <<102>>, <<102, 111>>, <<46>>, <<32>>, <<35>> }

\* The caret positions handed to OnText.
Positions == { [Line |-> 0, Column |-> 3, Runes |-> 3],
               [Line |-> 1, Column |-> 2, Runes |-> 6] }

\* The triggers of the completors handed to AddCompletor: "." without a key
\* binding, "#" with a key binding, and no character and no key binding.
Triggers == { [Characters |-> { <<46>> }, KeyName |-> "", KeyMods |-> 0],
              [Characters |-> { <<35>> }, KeyName |-> "Space", KeyMods |-> 2],
              [Characters |-> {}, KeyName |-> "", KeyMods |-> 0] }

\* The candidate lists a completor suggests.
Plain == [EditRange |-> ZeroRange, NewText |-> <<102, 111, 111>>,
          TextFormat |-> "plain"]
Snip == [EditRange |-> [Start |-> [Line |-> 0, Column |-> 1, Runes |-> 0],
                        End |-> [Line |-> 0, Column |-> 2, Runes |-> 0]],
         NewText |-> <<102, 40, 41>>, TextFormat |-> "Snippet"]
ByRunes == [EditRange |-> [Start |-> [Line |-> 0, Column |-> 0, Runes |-> 2],
                           End |-> [Line |-> 0, Column |-> 0, Runes |-> 3]],
            NewText |-> <<102, 111>>, TextFormat |-> "plain"]
Suggestions == { <<>>, << Plain, Snip, ByRunes >> }

\* The longest prefix a session collects.
MaxPrefix == 3
\* The largest number of registered completors.
MaxCompletors == 2

ptAll == << originalBuf, modifyBuf, pieces, seqLength, seqBytes, undoStack,
            redoStack, lastAction, lastActionEndIdx, lastInsertPiece,
            ref, op, calls, runBefore, typing, res, editor, eop,
            view, textLine, search, gutter, diff >>

\* A call of AddCompletor(completor, popup).
AddCompletorStep(trigger) ==
    /\ Len(completors) < MaxCompletors
    /\ \E r \in { AddCompletor(DC, trigger) } :
          /\ SetDC(r.st)
          /\ cop' = [NoCall EXCEPT !.name = "AddCompletor",
                                   !.wasActive = IsActive(DC), !.err = r.err]
    /\ edit' = NoEdit
    /\ UNCHANGED << popup, ptAll >>

\* A call of OnText(ctx); the completor suggests sug and keeps keep of them.
OnTextStep(ctx, sug, keep) ==
    /\ \E r \in { OnTextRun(DC, ctx, sug, keep) } :
          /\ Len(r.st.session.prefix) <= MaxPrefix
          /\ SetDC(r.st)
          /\ cop' = [NoCall EXCEPT !.name = "OnText", !.input = ctx.Input,
                                   !.wasActive = IsActive(DC),
                                   !.started = r.started]
          /\ popup' = [popup EXCEPT !.idle = IF IsActive(r.st) THEN 0 ELSE @]
    /\ edit' = NoEdit
    /\ UNCHANGED ptAll

\* A key event matching the k-th registered command reaches onKey.
OnKeyStep(k, ctx, sug, keep) ==
    /\ \E r \in { onKey(DC, [Name |-> commands[k].Name,
                               Modifiers |-> commands[k].Required], ctx, sug, keep) } :
          /\ SetDC(r.st)
          /\ cop' = [NoCall EXCEPT !.name = "onKey", !.input = ctx.Input,
                                   !.wasActive = IsActive(DC),
                                   !.started = r.started]
          /\ popup' = [popup EXCEPT !.idle = IF IsActive(r.st) THEN 0 ELSE @]
    /\ edit' = NoEdit
    /\ UNCHANGED ptAll

\* A call of Cancel().
CancelStep ==
    /\ SetDC(Cancel(DC))
    /\ cop' = [NoCall EXCEPT !.name = "Cancel", !.wasActive = IsActive(DC)]
    /\ edit' = NoEdit
    /\ UNCHANGED << popup, ptAll >>

\* A call of OnConfirm(idx).
OnConfirmStep(idx) ==
    /\ \E r \in { OnConfirm(DC, idx) } :
          /\ SetDC(r.st)
          /\ edit' = r.edit
    /\ cop' = [NoCall EXCEPT !.name = "OnConfirm", !.wasActive = IsActive(DC),
                             !.idx = idx]
    /\ UNCHANGED << popup, ptAll >>

InitCompletion ==
    /\ NewPT(init(<<>>))
    /\ NewHistory(<<>>)
    /\ NewCompletion
    /\ NewEditor(<<>>)

NextCompletion ==
    \/ \E t \in Triggers : AddCompletorStep(t)
    \/ \E i \in Inputs, p \in Positions, sug \in Suggestions, keep \in {1, 3} :
          OnTextStep([Input |-> i, Position |-> p], sug, keep)
    \/ \E k \in 1..Len(commands), i \in Inputs, p \in Positions, sug \in Suggestions :
          OnKeyStep(k, [Input |-> i, Position |-> p], sug, 3)
    \/ CancelStep

SpecCompletion == InitCompletion /\ [][NextCompletion]_vars

\* The inputs typed before a candidate is confirmed.
ConfirmInputs == { <<102>>, <<46>> }

\* Completors are registered, text is typed, and a popup item is confirmed
\* (the popup's labels and its Enter command call OnConfirm with any index).
NextConfirm ==
    \/ \E t \in Triggers : AddCompletorStep(t)
    \/ \E i \in ConfirmInputs, p \in Positions, sug \in Suggestions :
          OnTextStep([Input |-> i, Position |-> p], sug, 3)
    \/ \E idx \in -1..3 : OnConfirmStep(idx)

SpecConfirm == InitCompletion /\ [][NextConfirm]_vars

\* CompletionPopup.update of the popup of completor k: the popup registers
\* its key commands with the editor.
update(p, k) == [p EXCEPT !.attached = @ \cup {k}]

\* Reset without removing the popup's commands.
reset_KeepCommands(p, k) == p

\* CompletionPopup.reset of the popup of completor k: the popup's commands
\* are removed from the editor.
reset(p, k) == [p EXCEPT !.attached = @ \ {k}]

\* CompletionPopup.Layout(gtx, items) of the popup of completor k.
PopupLayout(d, p, k) ==
    IF ~IsActive(d) \/ Len(d.candidates) = 0 THEN reset(update(p, k), k)
    ELSE update(p, k)

\* The largest number of frames counted after a session has ended.
MaxFrames == 3

\* DefaultCompletion.Layout(gtx), called once in every frame.
LayoutStep ==
    /\ IF ~session.exists THEN UNCHANGED popup
       ELSE /\ IsActive(DC) \/ popup.idle < MaxFrames
            /\ \E p \in { PopupLayout(DC, popup, session.completor) } :
                  popup' = [p EXCEPT !.idle = IF IsActive(DC) THEN 0 ELSE @ + 1]
    /\ cop' = [NoCall EXCEPT !.name = "Layout", !.wasActive = IsActive(DC)]
    /\ edit' = NoEdit
    /\ UNCHANGED << completors, candidates, session, commands, ptAll >>

\* The inputs typed between frames.
FrameInputs == { <<102>> }

\* Completors are registered, text is typed, the session is cancelled, and
\* the editor lays the completion out in every frame.
NextFrames ==
    \/ \E t \in Triggers : AddCompletorStep(t)
    \/ \E i \in FrameInputs, p \in Positions, sug \in Suggestions :
          OnTextStep([Input |-> i, Position |-> p], sug, 3)
    \/ CancelStep
    \/ LayoutStep

SpecFrames == InitCompletion /\ [][NextFrames]_vars

\* NewPieceTable(text) wrapped in a PieceTableReader.
Init ==
    \E text \in InitTexts :
        /\ NewPT(init(text))
        /\ NewHistory(text)
        /\ NewCompletion
        /\ NewEditor(<<>>)

\* Insert, Undo and Redo in any order.
Called ==
    /\ calls < MaxCalls
    /\ calls' = calls + 1

Next ==
    \/ \E i \in -1..(seqLength + 1), t \in Texts :
          Called /\ InsertStep(i, t) /\ UNCHANGED << ref, res, compVars, edVars >>
    \/ Called /\ UndoStep /\ UNCHANGED << ref, res, compVars, edVars >>
    \/ Called /\ RedoStep /\ UNCHANGED << ref, res, compVars, edVars >>

Spec == Init /\ [][Next]_vars

\* Insert, Erase and Replace in any order, each applied to the reference
\* string as well, for as long as the document agrees with the reference.
NextEdit ==
    \/ \E i \in -1..(seqLength + 1), t \in Texts :
          Called /\ ref = Text /\ InsertStep(i, t) /\ RefFollowsInsert(i, t)
          /\ UNCHANGED << res, compVars, edVars >>
    \/ \E b \in 0..seqLength, e \in 0..seqLength :
          Called /\ ref = Text /\ b <= e /\ EraseStep(b, e) /\ UNCHANGED << res, compVars, edVars >>
    \/ \E b \in 0..seqLength, e \in 0..seqLength, t \in Texts :
          Called /\ ref = Text /\ b <= e /\ ReplaceStep(b, e, t) /\ UNCHANGED << res, compVars, edVars >>

SpecEdit == Init /\ [][NextEdit]_vars

\* Insert only, applied to the reference string as well.
NextInsert ==
    \E i \in -1..(seqLength + 1), t \in Texts :
        Called /\ InsertStep(i, t) /\ RefFollowsInsert(i, t) /\ UNCHANGED << res, compVars, edVars >>

SpecInsert == Init /\ [][NextInsert]_vars

\* ------------------------------------------------------- reader queries
\* The texts of the pieces of the documents the reader is queried on.
ChunkTexts == { <<>>, <<97>>, <<10>>, <<195, 169>>, <<10, 98>>, <<97, 10>> }

\* The largest number of pieces of such a document.
MaxChunks == 3

RECURSIVE Concat(_)
Concat(ss) == IF ss = <<>> THEN <<>> ELSE Head(ss) \o Concat(Tail(ss))

\* The chunks before chunk k that live in the same buffer as chunk k:
\* odd chunks are in the original buffer, even chunks in the modify buffer.
SameBufBefore(chunks, k) ==
    Concat([j \in 1..(k - 1) |-> IF j % 2 = k % 2 THEN chunks[j] ELSE <<>>])

\* A piece table whose piece list holds one piece per chunk, in order.
FromChunks(chunks) ==
    LET n == Len(chunks)
        piece(k) == [source |-> IF k % 2 = 1 THEN "original" ELSE "modify",
                     offset |-> RuneCount(SameBufBefore(chunks, k)),
                     length |-> RuneCount(chunks[k]),
                     byteOff |-> Len(SameBufBefore(chunks, k)),
                     byteLength |-> Len(chunks[k]),
                     next |-> IF k = n THEN TailId ELSE k + 3,
                     prev |-> IF k = 1 THEN HeadId ELSE k + 1]
    IN [originalBuf |-> SameBufBefore(chunks, n + 1 + (n % 2)),
        modifyBuf |-> SameBufBefore(chunks, n + 2 - (n % 2)),
        pieces |-> << [Sentinel EXCEPT !.next = IF n = 0 THEN TailId ELSE 3],
                      [Sentinel EXCEPT !.prev = IF n = 0 THEN HeadId ELSE n + 2] >>
                   \o [k \in 1..n |-> piece(k)],
        seqLength |-> RuneCount(Concat(chunks)),
        seqBytes |-> Len(Concat(chunks)),
        undoStack |-> <<>>, redoStack |-> <<>>, lastAction |-> "unknown",
        lastActionEndIdx |-> 0, lastInsertPiece |-> Nil]

\* A reader over a document of up to MaxChunks pieces.
InitRead ==
    \E n \in 0..MaxChunks : \E chunks \in [1..n -> ChunkTexts] :
        /\ NewPT(FromChunks(chunks))
        /\ NewHistory(Concat(chunks))
        /\ NewCompletion
        /\ NewEditor(<<>>)

frameRead == << originalBuf, modifyBuf, pieces, seqLength, seqBytes, undoStack,
                redoStack, lastAction, lastActionEndIdx, lastInsertPiece,
                ref, op, calls, runBefore, typing, compVars, edVars >>

\* A call of RuneOffset(runeOff).
RuneOffsetStep(runeOff) ==
    /\ res' = [fn |-> "RuneOffset", arg |-> runeOff, val |-> RuneOffset(PT, runeOff)]
    /\ UNCHANGED frameRead

\* A call of ReadRuneAt(runeOff).
ReadRuneAtStep(runeOff) ==
    /\ res' = [fn |-> "ReadRuneAt", arg |-> runeOff, val |-> ReadRuneAt(PT, runeOff)]
    /\ UNCHANGED frameRead

\* A call of ReadRuneBeforeBytes(off).
ReadRuneBeforeBytesStep(off) ==
    /\ res' = [fn |-> "ReadRuneBeforeBytes", arg |-> off,
               val |-> ReadRuneBeforeBytes(PT, off)]
    /\ UNCHANGED frameRead

\* A call of Lines().
LinesStep ==
    /\ res' = [fn |-> "Lines", arg |-> 0, val |-> Lines(PT)]
    /\ UNCHANGED frameRead

NextRead ==
    \/ \E r \in 0..(seqLength + 2) : RuneOffsetStep(r)
    \/ \E r \in 0..(seqLength + 2) : ReadRuneAtStep(r)
    \/ \E off \in 0..seqBytes : ReadRuneBeforeBytesStep(off)
    \/ LinesStep

SpecRead == InitRead /\ [][NextRead]_vars

\* C1: for every sequence of Insert, Erase and Replace calls the text read
\* back through the reader equals the reference string the same edits were
\* applied to.
C1_TextEqualsReference == Text = ref

\* C2: a single Undo after an insert restores the text that held before
\* that insert; after a run of coalesced inserts, the text before the first
\* insert of the run.
C2_UndoRestoresTextBeforeInsert ==
    (op.name = "Insert" /\ op.ok) => TextOf(Undo(PT).st) = runBefore

\* C3: with a non-empty undo stack Undo followed by Redo leaves the text
\* unchanged, and with a non-empty redo stack Redo followed by Undo does.
C3_UndoRedoIdentity ==
    /\ undoStack # <<>> => TextOf(Redo(Undo(PT).st).st) = Text
    /\ redoStack # <<>> => TextOf(Undo(Redo(PT).st).st) = Text

\* C4: Insert at an index below 0 or above the rune length returns false
\* and leaves the whole table (pieces, lengths, stacks, last action) as it was.
C4_OutOfRangeInsertRejected ==
    \A i \in {-1, seqLength + 1, seqLength + 2}, t \in Texts :
        LET r == Insert(PT, i, t) IN ~r.ok /\ r.st = PT

\* An Insert was rejected on a table that holds an undo entry.
C4_Witness == op.name = "Insert" /\ ~op.ok /\ undoStack # <<>>

\* The document the reader sees: its runes and bytes.
DocRunes == RuneCount(Text)
DocBytes == Len(Text)

\* The bytes taken by the first r runes of t, walking forward byte by byte.
RECURSIVE ForwardBytes(_, _, _)
ForwardBytes(t, r, i) ==
    IF i > Len(t) THEN Len(t)
    ELSE IF ~IsCont(t[i]) /\ r = 0 THEN i - 1
    ELSE ForwardBytes(t, IF IsCont(t[i]) THEN r ELSE r - 1, i + 1)

\* C5: single-rune inserts typed one after the other into an empty
\* document leave at most one piece and at most one undo entry; an insert
\* of two or more runes, or one away from the end index of the previous
\* insert, pushes a new undo entry.
C5_CoalescedTyping ==
    /\ typing => Len(Walk(pieces)) <= 1 /\ Len(undoStack) <= 1
    /\ (op.name = "Insert" /\ op.ok /\ (op.runes >= 2 \/ ~op.atEnd)) => op.pushed = 1

\* Three single runes were typed into the empty document and coalesced.
C5_Witness ==
    /\ typing /\ calls >= 3 /\ seqLength = 3
    /\ op.kind = "append" /\ Len(undoStack) = 1 /\ Len(Walk(pieces)) = 1

\* C6: after a successful Insert the redo stack is empty and Redo returns
\* false and changes nothing; Undo on an empty undo stack returns false and
\* changes nothing.
C6_RedoClearedByInsert ==
    /\ (op.name = "Insert" /\ op.ok)
          => redoStack = <<>> /\ ~Redo(PT).ok /\ Redo(PT).st = PT
    /\ undoStack = <<>> => ~Undo(PT).ok /\ Undo(PT).st = PT

\* Two boundary inserts were made into the empty document and one undo
\* entry is left: the second Insert followed an Undo and cleared the redo stack.
C6_Witness ==
    /\ op.name = "Insert" /\ op.ok /\ op.kind = "boundary"
    /\ originalBuf = <<>> /\ Len(pieces) = 4 /\ Len(undoStack) = 1
    /\ redoStack = <<>>

\* C7: RuneOffset(r) is the number of bytes of the first r runes of the
\* document, the byte size of the document from the rune length on, and
\* never decreases with r.
C7_RuneOffsetIsForwardWalk ==
    /\ \A r \in 0..DocRunes : RuneOffset(PT, r) = ForwardBytes(Text, r, 1)
    /\ \A r \in DocRunes..(DocRunes + 2) : RuneOffset(PT, r) = DocBytes
    /\ \A r \in 0..(DocRunes + 1) : RuneOffset(PT, r) <= RuneOffset(PT, r + 1)

\* RuneOffset was asked for a rune inside a document of several pieces with
\* a two-byte rune before it.
C7_Witness ==
    /\ res.fn = "RuneOffset" /\ Len(Walk(pieces)) >= 2
    /\ res.arg > 0 /\ res.arg < seqLength /\ res.val > res.arg

\* C8: ReadRuneAt at or past the end of the document and ReadRuneBeforeBytes
\* at byte offset 0 return the zero rune together with EOF.
C8_BoundaryReadsGiveZeroRuneAndEOF ==
    /\ \A r \in DocRunes..(DocRunes + 2) :
          ReadRuneAt(PT, r) = [r |-> 0, err |-> "EOF"]
    /\ ReadRuneBeforeBytes(PT, 0).r = 0
    /\ ReadRuneBeforeBytes(PT, 0).err = "EOF"

\* The number of line breaks in t.
Breaks(t) == Cardinality({ i \in 1..Len(t) : t[i] = lineBreak })

RECURSIVE SumLengths(_)
SumLengths(ls) == IF ls = <<>> THEN 0 ELSE Head(ls).length + SumLengths(Tail(ls))

\* C9: the lines Lines() yields add up to the rune length of the document,
\* all but possibly the last end with a hard break, and there is one line
\* per line break plus one for a non-empty tail without a break.
C9_LinesAreLogicalLines ==
    LET ls == Lines(PT) IN
    /\ SumLengths(ls) = DocRunes
    /\ \A k \in 1..(Len(ls) - 1) : ls[k].hasLineBreak
    /\ Len(ls) = Breaks(Text)
                 + (IF Text # <<>> /\ Text[Len(Text)] # lineBreak THEN 1 ELSE 0)

\* Lines() was called on three pieces that make two lines, the first of
\* them spanning more than one piece.
C9_Witness ==
    /\ res.fn = "Lines" /\ Len(Walk(pieces)) = 3
    /\ \A k \in 1..3 : pieces[Walk(pieces)[k]].length > 0
    /\ Len(res.val) = 2
    /\ res.val[1].length > pieces[Walk(pieces)[1]].length

\* C10: OnText with a non-empty input and no active session activates a
\* session exactly when a completor is registered and the input is a
\* trigger character of a registered completor or begins with a symbol
\* character; the session belongs to the first such completor.
C10_CharTriggerStartsSession ==
    (cop.name = "OnText" /\ cop.input # <<>> /\ ~cop.wasActive) =>
        LET hits == { k \in 1..Len(completors) :
                        \/ cop.input \in completors[k].Characters
                        \/ isSymbolChar(cop.input[1]) }
        IN /\ IsActive(DC) <=> (completors # <<>> /\ hits # {})
           /\ IsActive(DC) => \A k \in hits : session.completor <= k
           /\ IsActive(DC) => session.completor \in hits

\* OnText started a session for the second registered completor.
C10_Witness ==
    /\ cop.name = "OnText" /\ ~cop.wasActive /\ IsActive(DC)
    /\ session.completor = 2

\* The piece walk of every reader loop reaches the tail.
WalkTerminates == WalkEnds(pieces, pieces[HeadId].next, Len(pieces))

\* The input begins with one of { } ( ) , ; space newline tab .
TerminatingInput(input) ==
    input # <<>> /\ input[1] \in { 123, 125, 40, 41, 44, 59, 32, 10, 9, 46 }

\* Some registered completor has input among its trigger characters, or
\* the input begins with an ASCII letter, a digit or an underscore.
SomeCompletorAccepts(input) ==
    /\ completors # <<>>
    /\ \/ \E k \in 1..Len(completors) : input \in completors[k].Characters
       \/ input[1] \in (97..122) \cup (65..90) \cup (48..57) \cup { 95 }

\* C11: an OnText call with a non-empty input on an active session ends
\* that session exactly when the input begins with a terminating character
\* and is not the session's own trigger input, also when the character is a
\* trigger character of a completor; the ended session is left cleared, or
\* replaced in the same call by a new session on that input when a
\* completor accepts the input.
C11_TerminatingInputEndsSession ==
    [][ (cop'.name = "OnText" /\ cop'.input # <<>> /\ IsActive(DC)) =>
          LET input == cop'.input
              ends == TerminatingInput(input) /\ input # session.triggerChars
          IN IF ends
             THEN IF SomeCompletorAccepts(input)
                  THEN /\ cop'.started
                       /\ session'.exists /\ ~session'.canceled
                       /\ session'.triggerChars = input
                       /\ session'.prefix = <<>>
                       /\ session'.prefixRange = ZeroRange
                  ELSE /\ ~cop'.started
                       /\ session'.canceled
                       /\ session'.prefix = <<>>
                       /\ session'.prefixRange = ZeroRange
                       /\ session'.candidates = <<>>
                       /\ candidates' = <<>>
             ELSE /\ ~cop'.started
                  /\ ~session'.canceled
                  /\ session'.triggerChars = session.triggerChars
                  /\ session'.completor = session.completor ]_vars

\* An active session was ended by the input "." and a new session was
\* started on "." in the same call.
C11_Witness ==
    /\ cop.name = "OnText" /\ cop.wasActive /\ cop.started
    /\ cop.input = << 46 >>
    /\ session.exists /\ ~session.canceled /\ session.triggerChars = << 46 >>

\* The input begins with an ASCII letter, a digit or an underscore.
SymbolInput(input) ==
    input # <<>> /\ input[1] \in (97..122) \cup (65..90) \cup (48..57) \cup { 95 }

\* C12: after every call that leaves a session active, the prefix is the
\* prefix before the call (empty when the call opened the session) followed
\* by the input when the input begins with a symbol character; such an input
\* moves the end of the prefix range to the caret and, when it is the first
\* one of the session, fixes the start of the range at the position before
\* the input; any other input leaves prefix and prefix range as they were.
C12_PrefixCollectsSymbolInputs ==
    [][ (cop'.name \in { "OnText", "onKey" } /\ IsActive(DC)') =>
          LET input == cop'.input
              pos == session'.ctx.Position
              before == IF cop'.started THEN <<>> ELSE session.prefix
              rangeBefore == IF cop'.started THEN ZeroRange ELSE session.prefixRange
          IN IF SymbolInput(input)
             THEN /\ session'.prefix = before \o input
                  /\ session'.prefixRange.End.Line = pos.Line
                  /\ session'.prefixRange.End.Column = pos.Column
                  /\ session'.prefixRange.Start =
                        IF before = <<>>
                        THEN [Line |-> pos.Line,
                              Column |-> Max(0, pos.Column - RuneCount(input)),
                              Runes |-> 0]
                        ELSE rangeBefore.Start
             ELSE /\ session'.prefix = before
                  /\ session'.prefixRange = rangeBefore ]_vars

\* A session holds the prefix "ffo" collected from two inputs, the second
\* of them on another caret position than the first.
C12_Witness ==
    /\ cop.name = "OnText" /\ ~cop.started /\ cop.input = << 102, 111 >>
    /\ IsActive(DC) /\ session.prefix = << 102, 102, 111 >>
    /\ session.prefixRange.Start = [Line |-> 0, Column |-> 2, Runes |-> 0]
    /\ session.prefixRange.End = [Line |-> 1, Column |-> 2, Runes |-> 0]

\* The rune offsets a range denotes: a range with a rune offset set is taken
\* by its rune offsets, another by its line and column positions.
ByRuneOffsets(r) == r.Start.Runes > 0 \/ r.End.Runes > 0
StartRunes(r) == IF ByRuneOffsets(r) THEN r.Start.Runes
                 ELSE ConvertPos(r.Start.Line, r.Start.Column)
EndRunes(r) == IF ByRuneOffsets(r) THEN r.End.Runes
               ELSE ConvertPos(r.End.Line, r.End.Column)
SameLine(r1, r2) ==
    /\ StartRunes(r1) \div DocLineRunes = StartRunes(r2) \div DocLineRunes
    /\ EndRunes(r1) \div DocLineRunes = EndRunes(r2) \div DocLineRunes

\* C13: a confirm of a valid candidate selects, for the replacement, the merge
\* of the candidate's edit range and the session's prefix range when both lie
\* on the same line (the earlier start and the later end), whether the
\* candidate's range is given in rune offsets or in line and column; when one
\* of the two ranges is empty the other one is selected.
C13_ConfirmReplacesMergedRange ==
    [][ (cop'.name = "OnConfirm" /\ edit'.called) =>
          LET r1 == candidates[cop'.idx + 1].EditRange
              r2 == session.prefixRange
          IN /\ r1 = ZeroRange =>
                  edit'.start = StartRunes(r2) /\ edit'.end = EndRunes(r2)
             /\ r2 = ZeroRange =>
                  edit'.start = StartRunes(r1) /\ edit'.end = EndRunes(r1)
             /\ (r1 # ZeroRange /\ r2 # ZeroRange /\ SameLine(r1, r2)) =>
                  /\ edit'.start = Min(StartRunes(r1), StartRunes(r2))
                  /\ edit'.end = Max(EndRunes(r1), EndRunes(r2)) ]_vars

\* C14: after OnConfirm with an index of the candidate list the session has
\* ended: the completion is inactive and the candidate list is empty. With an
\* index outside the list nothing is handed to the editor and the session,
\* the candidates, the completors and the commands stay as they were.
C14_ConfirmEndsSession ==
    [][ cop'.name = "OnConfirm" =>
          IF 0 <= cop'.idx /\ cop'.idx < Len(candidates)
          THEN /\ edit'.called
               /\ ~IsActive(DC)'
               /\ candidates' = <<>>
               /\ session'.canceled
          ELSE /\ edit' = NoEdit
               /\ UNCHANGED << session, candidates, completors, commands >> ]_vars

\* The second of three candidates, a snippet, was confirmed in an active
\* session, and the session has ended.
C14_Witness ==
    /\ cop.name = "OnConfirm" /\ cop.wasActive /\ cop.idx = 1
    /\ edit.called /\ edit.snippet /\ edit.text = Snip.NewText
    /\ session.canceled /\ candidates = <<>>

KeyVariants == { [Characters |-> {}, KeyName |-> "Space", KeyMods |-> 4],
                 [Characters |-> {}, KeyName |-> "P", KeyMods |-> 2] }

clearColumnEdit(e) ==
    LET a == [e EXCEPT !.columnEdit.enabled = FALSE, !.columnEdit.selections = <<>>]
    IN IF a.mode = ModeColumnEdit THEN [a EXCEPT !.mode = ModeNormal] ELSE a

\* Editor.setMode(mode)
setMode(e, mode) ==
    LET a == IF mode \in { ModeNormal, ModeReadOnly }
             THEN LET b == IF e.snippetCtx THEN [e EXCEPT !.snippetCtx = FALSE] ELSE e
                  IN IF b.mode = ModeColumnEdit /\ mode # ModeColumnEdit
                     THEN clearColumnEdit(b) ELSE b
             ELSE e
    IN [a EXCEPT !.mode = mode]

\* Editor.SetColumnEditMode(enabled)
SetColumnEditMode(e, enabled) ==
    IF enabled THEN [e EXCEPT !.mode = ModeColumnEdit, !.columnEdit.enabled = TRUE]
    ELSE clearColumnEdit(e)

\* Editor.ColumnEditEnabled
ColumnEditEnabled(e) == e.columnEdit.enabled \/ e.mode = ModeColumnEdit

\* Editor.startColumnSelection at the point pos that QueryPos maps to
\* (line, col); hit is whether QueryPos found a rune offset there. No
\* completor is set.
startColumnSelection(e, pos, line, col, hit) ==
    LET a == [SetColumnEditMode(e, TRUE) EXCEPT !.columnEdit.anchor = pos]
    IN IF hit THEN [a EXCEPT !.columnEdit.selections = << [line |-> line, col |-> col] >>]
       ELSE a

\* Editor.InsertSnippet, as far as the mode goes: a snippet context is
\* created and the editor enters the snippet mode.
InsertSnippet(e) == setMode([e EXCEPT !.snippetCtx = TRUE], ModeSnippet)

SetModeStep(mode) ==
    /\ editor' = setMode(editor, mode)
    /\ eop' = [NoEdCall EXCEPT !.name = "setMode", !.mode = mode]

SetColumnEditModeStep(enabled) ==
    /\ editor' = SetColumnEditMode(editor, enabled)
    /\ eop' = [NoEdCall EXCEPT !.name = "SetColumnEditMode", !.flag = enabled]

ClearColumnEditStep ==
    /\ editor' = clearColumnEdit(editor)
    /\ eop' = [NoEdCall EXCEPT !.name = "clearColumnEdit"]

\* A press at the point of column col and line number line, in a view of
\* lines one unit high and runes one unit wide that is not scrolled.
StartColumnSelectionStep(line, col, hit) ==
    /\ editor' = startColumnSelection(editor, [X |-> col, Y |-> line], line, col, hit)
    /\ eop' = [NoEdCall EXCEPT !.name = "startColumnSelection", !.flag = hit]

InsertSnippetStep ==
    /\ editor' = InsertSnippet(editor)
    /\ eop' = [NoEdCall EXCEPT !.name = "InsertSnippet"]

\* The largest line and column of a column cursor.
MaxLine == 2

\* Everything but the editor.
edFrame == << originalBuf, modifyBuf, pieces, seqLength, seqBytes, undoStack,
              redoStack, lastAction, lastActionEndIdx, lastInsertPiece,
              ref, op, calls, runBefore, typing, res, compVars,
              view, textLine, search, gutter, diff >>

InitMode ==
    /\ NewPT(init(<<>>))
    /\ NewHistory(<<>>)
    /\ NewCompletion
    /\ NewEditor(<<>>)

\* Mode changes in any order.
NextMode ==
    \/ \E mode \in Modes : SetModeStep(mode) /\ UNCHANGED edFrame
    \/ \E enabled \in BOOLEAN : SetColumnEditModeStep(enabled) /\ UNCHANGED edFrame
    \/ ClearColumnEditStep /\ UNCHANGED edFrame
    \/ \E line \in 0..MaxLine, col \in 0..MaxLine, hit \in BOOLEAN :
          StartColumnSelectionStep(line, col, hit) /\ UNCHANGED edFrame
    \/ InsertSnippetStep /\ UNCHANGED edFrame

SpecMode == InitMode /\ [][NextMode]_vars

\* ------------------------------------------------------------ editor input

\* The largest document of the editor, in runes.
MaxDoc == 3

\* A Go map from rune offsets to runes, as a set of pairs: the access
\* (the zero value for a missing key), the assignment and delete.
MapGet(mp, k) ==
    IF \E p \in mp : p[1] = k THEN (CHOOSE p \in mp : p[1] = k)[2] ELSE 0
MapPut(mp, k, v) == { p \in mp : p[1] # k } \cup { << k, v >> }
MapDelete(mp, k) == { p \in mp : p[1] # k }

\* The text with the runes from start to end replaced by s.
Splice(text, start, end, s) ==
    SubSeq(text, 1, start) \o s \o SubSeq(text, end + 1, Len(text))

\* closestToRune: the rune offset inside the document closest to pos.
closestToRune(e, pos) == Max(0, Min(pos, Len(e.text)))

\* The undo history of the buffer is followed when the Editor record has
\* the fields undo, the documents that Undo restores, the oldest first, and
\* group, the nesting depth of GroupOp and whether the open group recorded
\* no edit yet. Specifications that never undo leave the two fields out.
HasUndo(e) == "undo" \in DOMAIN e

\* TextSource.GroupOp and UnGroupOp: the edits between the outermost pair
\* are one undo step.
GroupOp(e) ==
    IF ~HasUndo(e) THEN e
    ELSE [e EXCEPT !.group = [depth |-> @.depth + 1,
                              fresh |-> IF @.depth = 0 THEN TRUE ELSE @.fresh]]
UnGroupOp(e) ==
    IF ~HasUndo(e) THEN e
    ELSE [e EXCEPT !.group.depth = IF @ > 0 THEN @ - 1 ELSE 0]

\* The buffer records an edit of the document before: a new undo step,
\* unless the edit belongs to an open group that recorded one already.
recordEdit(e, before) ==
    IF ~HasUndo(e) THEN e
    ELSE IF e.group.depth > 0 /\ ~e.group.fresh THEN e
    ELSE [e EXCEPT !.undo = Append(@, before), !.group.fresh = FALSE]

\* textView.Undo: the last undo step is taken back; the caret stays inside
\* the document.
edUndo(e) ==
    IF ~HasUndo(e) \/ Len(e.undo) = 0 THEN e
    ELSE LET a == [e EXCEPT !.text = e.undo[Len(e.undo)],
                            !.undo = SubSeq(@, 1, Len(@) - 1)]
         IN [a EXCEPT !.caret = [start |-> Min(e.caret.start, Len(a.text)),
                                 end |-> Min(e.caret.end, Len(a.text))]]

\* textView.Replace(start, end, s): the caret ends move with the text
\* behind the replaced range.
textReplace(e, start0, end0, s) ==
    LET start == Min(start0, end0)
        end == Max(start0, end0)
        startPos == closestToRune(e, start)
        endPos == closestToRune(e, end)
        newEnd == startPos + Len(s)
        adjust(pos) == IF newEnd < pos /\ pos <= endPos THEN newEnd
                       ELSE IF endPos < pos THEN pos + (newEnd - endPos)
                       ELSE pos
    IN recordEdit([e EXCEPT !.text = Splice(e.text, startPos, endPos, s),
                            !.caret = [start |-> adjust(e.caret.start),
                                       end |-> adjust(e.caret.end)]],
                  e.text)

\* textView.SetCaret(start, end)
SetCaret(e, start, end) ==
    [e EXCEPT !.caret = [start |-> closestToRune(e, start),
                         end |-> closestToRune(e, end)]]

\* textView.MoveCaret(startDelta, endDelta); every rune of the documents in
\* use is a grapheme cluster.
MoveCaret(e, startDelta, endDelta) ==
    SetCaret(e, e.caret.start + startDelta, e.caret.end + endDelta)

\* Editor.replace(start, end, s): textView.Replace, the caret left behind
\* the inserted text.
replace(e, start, end, s) ==
    LET a == textReplace(e, start, end, s)
        at == closestToRune(e, Min(start, end)) + Len(s)
    IN SetCaret(a, at, at)

\* ReadRuneAt(pos) on the editor's document: the rune, and whether an error
\* was returned (there is no rune at pos).
edReadRuneAt(e, pos) ==
    IF 0 <= pos /\ pos < Len(e.text) THEN [rune |-> e.text[pos + 1], err |-> FALSE]
    ELSE [rune |-> RuneError, err |-> TRUE]

\* unicode.IsLetter(r) || unicode.IsDigit(r) || r == '_' on ASCII runes.
IsWordChar(r) ==
    \/ 48 <= r /\ r <= 57
    \/ 65 <= r /\ r <= 90
    \/ 97 <= r /\ r <= 122
    \/ r = 95

\* isNearWordChar that looks at the following rune in both directions.
isNearWordChar_Forward(e, runeOff, backward) ==
    LET got == edReadRuneAt(e, runeOff)
    IN ~got.err /\ IsWordChar(got.rune)

\* Editor.isNearWordChar(runeOff, backward)
isNearWordChar(e, runeOff, backward) ==
    LET pos == IF backward THEN runeOff - 1 ELSE runeOff
        got == edReadRuneAt(e, pos)
    IN ~got.err /\ IsWordChar(got.rune)

\* BracketsQuotes.GetCounterpart(r) for the pair ( ) and the quote ".
GetCounterpart(r) ==
    IF r = 40 THEN [rune |-> 41, isOpening |-> TRUE]
    ELSE IF r = 41 THEN [rune |-> 40, isOpening |-> FALSE]
    ELSE IF r = 34 THEN [rune |-> 34, isOpening |-> TRUE]
    ELSE [rune |-> 0, isOpening |-> FALSE]

\* The start of the line that holds the rune offset pos.
LineStart(text, pos) ==
    LET breaks == { i \in 1..pos : text[i] = lineBreak }
    IN IF breaks = {} THEN 0 ELSE CHOOSE i \in breaks : \A j \in breaks : j <= i

\* The end of the line that holds pos, its line break included.
LineEnd(text, pos) ==
    LET breaks == { i \in (pos + 1)..Len(text) : text[i] = lineBreak }
    IN IF breaks = {} THEN Len(text) ELSE CHOOSE i \in breaks : \A j \in breaks : i <= j

\* The start of line number line (Len(text) when there is no such line).
StartOfLine(text, line) ==
    LET starts == { i \in 0..Len(text) :
                      /\ i = 0 \/ text[i] = lineBreak
                      /\ Cardinality({ j \in 1..i : text[j] = lineBreak }) = line }
    IN IF starts = {} THEN Len(text) ELSE CHOOSE i \in starts : TRUE

\* Editor.ConvertPos(line, col) on the editor's document.
edConvertPos(text, line, col) ==
    LET start == StartOfLine(text, line)
        end == LineEnd(text, start)
        last == IF end > start /\ text[end] = lineBreak THEN end - 1 ELSE end
    IN Min(start + col, last)

\* The column cursors from the k-th on receive the text, one after the other.
RECURSIVE columnInsert(_, _, _)
columnInsert(e, k, txt) ==
    IF k > Len(e.columnEdit.selections) THEN e
    ELSE LET cursor == e.columnEdit.selections[k]
             runeOff == edConvertPos(e.text, cursor.line, cursor.col)
             a == replace(e, runeOff, runeOff, txt)
         IN columnInsert([a EXCEPT !.columnEdit.selections[k].col = @ + Len(txt)],
                         k + 1, txt)

\* onColumnEditInput without GroupOp and UnGroupOp.
onColumnEditInput_NoGroup(e, txt) ==
    IF Len(e.columnEdit.selections) = 0 THEN e
    ELSE MoveCaret(columnInsert(e, 1, txt), 0, 0)

\* Editor.onColumnEditInput
onColumnEditInput(e, txt) ==
    IF Len(e.columnEdit.selections) = 0 THEN e
    ELSE MoveCaret(UnGroupOp(columnInsert(GroupOp(e), 1, txt)), 0, 0)

\* onTextInput without the read-only test.
onTextInput_IgnoreReadOnly(e, txt, rs, re) == replace(e, rs, re, txt)

\* Editor.onTextInput for the edit event with text txt and range [rs, re].
\* The scroll state, lastInput and the tab stops of the snippet context are
\* not part of the model.
onTextInput(e, txt, rs, re) ==
    IF e.mode = ModeReadOnly \/ Len(txt) <= 0 THEN e
    ELSE IF ColumnEditEnabled(e) /\ Len(e.columnEdit.selections) > 0
    THEN onColumnEditInput(e, txt)
    ELSE
    LET r == txt[1]
        cp == GetCounterpart(r)
        counterpart == cp.rune
    IN IF counterpart > 0 /\ cp.isOpening
       THEN LET shouldAutoInsert ==
                    IF counterpart # r THEN ~isNearWordChar(e, rs, FALSE)
                    ELSE ~(isNearWordChar(e, rs, TRUE) \/ isNearWordChar(e, rs, FALSE))
                replaced == IF shouldAutoInsert THEN txt \o << counterpart >> ELSE txt
                a == replace(e, rs, re, replaced)
            IN IF shouldAutoInsert
               THEN LET b == MoveCaret(a, -1, -1)
                    IN [b EXCEPT !.autoInsertions = MapPut(@, b.caret.start, counterpart)]
               ELSE [a EXCEPT !.autoInsertions = MapDelete(@, rs)]
       ELSE IF counterpart > 0
       THEN LET next == edReadRuneAt(e, rs)
            IN IF ~next.err /\ next.rune = MapGet(e.autoInsertions, rs)
               THEN [MoveCaret(e, 1, 1) EXCEPT !.autoInsertions = MapDelete(@, rs)]
               ELSE replace(e, rs, re, txt)
       ELSE replace([e EXCEPT !.autoInsertions = MapDelete(@, rs)], rs, re, txt)

\* Editor.Insert(s): the selection is replaced by s, the caret left behind it.
edInsert(e, s) == replace(e, e.caret.start, e.caret.end, s)

\* Editor.Delete(1) with a selection, and Editor.DeleteLine with none.
edDelete(e) == replace(e, e.caret.start, e.caret.end, <<>>)
edDeleteLine(e) ==
    replace(e, LineStart(e.text, e.caret.start), LineEnd(e.text, e.caret.start), <<>>)

\* textView.IndentLines(shift): a tab is inserted at the caret, or with
\* shift the tab that begins the caret's line is removed; the object after
\* it and the number of changed lines.
IndentLines(e, shift) ==
    LET start == LineStart(e.text, Min(e.caret.start, e.caret.end))
    IN IF ~shift THEN [st |-> edInsert(e, << 9 >>), n |-> 1]
       ELSE IF start < Len(e.text) /\ e.text[start + 1] = 9
       THEN [st |-> textReplace(e, start, start + 1, <<>>), n |-> 1]
       ELSE [st |-> e, n |-> 0]

\* Editor.onTab; the tab stops of the snippet context are not modelled.
onTab(e, shiftPressed) ==
    IF e.mode = ModeReadOnly THEN e
    ELSE IF e.mode = ModeSnippet THEN e
    ELSE LET r == IndentLines(e, shiftPressed)
         IN IF r.n > 0 THEN MoveCaret(r.st, 0, 0) ELSE r.st

\* Editor.onPasteEvent with the clipboard content text and no onPaste hook.
onPasteEvent(e, text) ==
    IF e.mode = ModeReadOnly THEN e ELSE edInsert(e, text)

\* Editor.onInsertLineBreak: IndentOnBreak on a line without indentation.
onInsertLineBreak(e) ==
    IF e.mode = ModeReadOnly THEN e ELSE MoveCaret(edInsert(e, << lineBreak >>), 0, 0)

\* The text onCopyCut writes to the clipboard: the selection, or the caret's
\* line closed by a line break.
CopiedText(e) ==
    IF e.caret.start = e.caret.end
    THEN LET line == SubSeq(e.text, LineStart(e.text, e.caret.start) + 1,
                            LineEnd(e.text, e.caret.start))
         IN IF Len(line) > 0 /\ line[Len(line)] # lineBreak
            THEN line \o << lineBreak >> ELSE line
    ELSE SubSeq(e.text, Min(e.caret.start, e.caret.end) + 1,
                Max(e.caret.start, e.caret.end))

\* Editor.onCopyCut for the key name ("C" or "X").
onCopyCut(e, name) ==
    IF CopiedText(e) # <<>> /\ name = "X" /\ e.mode # ModeReadOnly
    THEN IF e.caret.start # e.caret.end THEN edDelete(e) ELSE edDeleteLine(e)
    ELSE e

\* An edit event for the current selection.
OnTextInputStep(txt) ==
    /\ \E a \in { onTextInput(editor, txt, Min(editor.caret.start, editor.caret.end),
                               Max(editor.caret.start, editor.caret.end)) } :
          /\ Len(a.text) <= MaxDoc
          /\ editor' = a
    /\ eop' = [NoEdCall EXCEPT !.name = "onTextInput", !.text = txt]

OnTabStep(shiftPressed) ==
    /\ \E a \in { onTab(editor, shiftPressed) } :
          /\ Len(a.text) <= MaxDoc
          /\ editor' = a
    /\ eop' = [NoEdCall EXCEPT !.name = "onTab", !.flag = shiftPressed]

OnPasteStep(text) ==
    /\ \E a \in { onPasteEvent(editor, text) } :
          /\ Len(a.text) <= MaxDoc
          /\ editor' = a
    /\ eop' = [NoEdCall EXCEPT !.name = "onPasteEvent", !.text = text]

OnInsertLineBreakStep ==
    /\ \E a \in { onInsertLineBreak(editor) } :
          /\ Len(a.text) <= MaxDoc
          /\ editor' = a
    /\ eop' = [NoEdCall EXCEPT !.name = "onInsertLineBreak"]

\* Copy (name "C") or cut (name "X"); the record holds the clipboard text.
OnCopyCutStep(name) ==
    /\ editor' = onCopyCut(editor, name)
    /\ eop' = [NoEdCall EXCEPT !.name = "onCopyCut", !.text = CopiedText(editor),
                               !.flag = (name = "X")]

\* The selection is set, by the keyboard or the pointer.
SetCaretStep(start, end) ==
    /\ editor' = SetCaret(editor, start, end)
    /\ eop' = [NoEdCall EXCEPT !.name = "SetCaret"]

\* The texts of edit events: "(", ")", the quote and "a".
InputTexts == { << 40 >>, << 41 >>, << 34 >>, << 97 >> }

\* Edit events with any selection.
NextTyping ==
    \/ \E start \in 0..MaxDoc, end \in 0..MaxDoc :
          SetCaretStep(start, end) /\ UNCHANGED edFrame
    \/ \E txt \in InputTexts : OnTextInputStep(txt) /\ UNCHANGED edFrame

SpecTyping == InitMode /\ [][NextTyping]_vars

\* Input events in any order, in the normal and in the read-only mode.
NextInput ==
    \/ \E mode \in { ModeNormal, ModeReadOnly } : SetModeStep(mode) /\ UNCHANGED edFrame
    \/ \E start \in 0..MaxDoc, end \in 0..MaxDoc :
          SetCaretStep(start, end) /\ UNCHANGED edFrame
    \/ OnTextInputStep(<< 97 >>) /\ UNCHANGED edFrame
    \/ \E shiftPressed \in BOOLEAN : OnTabStep(shiftPressed) /\ UNCHANGED edFrame
    \/ OnPasteStep(<< 97 >>) /\ UNCHANGED edFrame
    \/ OnInsertLineBreakStep /\ UNCHANGED edFrame
    \/ \E name \in { "C", "X" } : OnCopyCutStep(name) /\ UNCHANGED edFrame

SpecInput == InitMode /\ [][NextInput]_vars

\* ------------------------------------------------------------ backspace

\* TextView.TabWidth: the number of spaces that stand for a tab.
TabWidth == 2

\* The number of runes at the end of leading, at most limit of them, that are
\* spaces: the loop of onDeleteBackward that counts the moves.
RECURSIVE TrailingSpaces(_, _)
TrailingSpaces(leading, limit) ==
    IF Len(leading) > 0 /\ leading[Len(leading)] = 32 /\ limit > 0
    THEN 1 + TrailingSpaces(SubSeq(leading, 1, Len(leading) - 1), limit - 1)
    ELSE 0

\* onDeleteBackward that extends the selection over every space before the
\* caret, whatever the tab width.
onDeleteBackward_NoTabWidth(e) ==
    LET start == e.caret.start
        prev == edReadRuneAt(e, start - 1)
        leading == SubSeq(e.text, LineStart(e.text, start) + 1, start)
    IN IF start # e.caret.end \/ start <= 0 THEN e
       ELSE IF prev.rune = 32 /\ \A i \in 1..Len(leading) : leading[i] \in { 32, 9 }
       THEN MoveCaret(e, 0, 0 - TrailingSpaces(leading, Len(leading)))
       ELSE e

\* Editor.onDeleteBackward: the selection is extended over the indentation
\* before the caret, or over an auto-inserted pair around it.
onDeleteBackward(e) ==
    LET start == e.caret.start
        end == e.caret.end
        prev == edReadRuneAt(e, start - 1)
        leading == SubSeq(e.text, LineStart(e.text, start) + 1, end)
        hasNonSpaceOrTab == \E i \in 1..Len(leading) : leading[i] \notin { 32, 9 }
        moves == TrailingSpaces(leading, TabWidth)
        inserted == MapGet(e.autoInsertions, start)
        exists == \E p \in e.autoInsertions : p[1] = start
        got == GetCounterpart(inserted)
    IN IF start # end \/ start <= 0 THEN e
       ELSE IF prev.rune = 32
       THEN IF hasNonSpaceOrTab THEN e
            ELSE IF moves > 0 THEN MoveCaret(e, 0, 0 - moves)
            ELSE e
       ELSE IF exists
       THEN LET a == IF /\ (~got.isOpening /\ got.rune > 0) \/ inserted = got.rune
                        /\ prev.rune = got.rune
                     THEN MoveCaret(e, -1, 1) ELSE e
            IN [a EXCEPT !.autoInsertions = MapDelete(@, start)]
       ELSE e

\* Editor.Delete(-1): the selection is deleted, or with an empty selection
\* the grapheme cluster before the caret.
edDeleteBackward(e) ==
    IF e.mode = ModeReadOnly THEN e
    ELSE LET a == IF e.caret.start = e.caret.end THEN MoveCaret(e, 0, -1) ELSE e
         IN replace(a, a.caret.start, a.caret.end, <<>>)

\* The backspace key: onDeleteBackward, then Delete(-1).
\* The record holds the deleted runes.
OnDeleteBackwardStep ==
    \E a \in { edDeleteBackward(onDeleteBackward(editor)) } :
       /\ editor' = a
       /\ eop' = [NoEdCall EXCEPT
                    !.name = "onDeleteBackward",
                    !.text = SubSeq(editor.text, a.caret.start + 1,
                                    a.caret.start + Len(editor.text) - Len(a.text))]

\* The texts typed before a backspace: a space, a tab, "a" and a line break.
IndentTexts == { << 32 >>, << 9 >>, << 97 >>, << lineBreak >> }

\* Typing and backspace with any selection.
NextBackspace ==
    \/ \E start \in 0..MaxDoc, end \in 0..MaxDoc :
          SetCaretStep(start, end) /\ UNCHANGED edFrame
    \/ \E txt \in IndentTexts : OnTextInputStep(txt) /\ UNCHANGED edFrame
    \/ OnDeleteBackwardStep /\ UNCHANGED edFrame

SpecBackspace == InitMode /\ [][NextBackspace]_vars

\* ------------------------------------------------------------ skip-over

\* Whether onTextInput takes the branch that moves the caret over the rune
\* at rs instead of inserting txt: txt begins with a closing character and
\* the rune at rs is the one recorded in autoInsertions for rs.
skipsOver(e, txt, rs) ==
    LET cp == GetCounterpart(txt[1])
        next == edReadRuneAt(e, rs)
    IN /\ e.mode # ModeReadOnly
       /\ ~(ColumnEditEnabled(e) /\ Len(e.columnEdit.selections) > 0)
       /\ cp.rune > 0 /\ ~cp.isOpening
       /\ ~next.err /\ next.rune = MapGet(e.autoInsertions, rs)

\* An edit event with text txt. eop.auto tells for every rune of the
\* document whether the editor inserted it as the counterpart of a typed
\* opening character (TRUE) or the user typed it (FALSE); eop.flag tells
\* whether the event was swallowed, eop.pos.X where.
TypeStep(txt) ==
    LET rs == Min(editor.caret.start, editor.caret.end)
        re == Max(editor.caret.start, editor.caret.end)
        a == onTextInput(editor, txt, rs, re)
        skip == skipsOver(editor, txt, rs)
        paired == Len(a.text) = Len(editor.text) - (re - rs) + Len(txt) + 1
        typed == [i \in 1..Len(txt) |-> FALSE]
        auto == IF skip THEN eop.auto
                ELSE Splice(eop.auto, rs, re,
                            IF paired THEN typed \o << TRUE >> ELSE typed)
    IN /\ Len(a.text) <= MaxDoc
       /\ editor' = a
       /\ eop' = [NoEdCall EXCEPT !.name = "onTextInput", !.text = txt,
                                  !.flag = skip, !.pos = [X |-> rs, Y |-> 0],
                                  !.auto = auto]

\* A backspace: onDeleteBackward and Delete(-1); the deleted runes leave
\* eop.auto.
BackspaceStep ==
    LET a == edDeleteBackward(onDeleteBackward(editor))
        removed == Len(editor.text) - Len(a.text)
    IN /\ editor' = a
       /\ eop' = [NoEdCall EXCEPT
                    !.name = "onDeleteBackward",
                    !.auto = Splice(eop.auto, a.caret.start,
                                    a.caret.start + removed, << >>)]

\* A caret move; the document and eop.auto stay.
CaretStep(start, end) ==
    /\ editor' = SetCaret(editor, start, end)
    /\ eop' = [NoEdCall EXCEPT !.name = "SetCaret", !.auto = eop.auto]

\* Typing of brackets, quotes and letters, backspace and caret moves in any
\* order.
NextPairs ==
    \/ \E start \in 0..MaxDoc, end \in 0..MaxDoc :
          CaretStep(start, end) /\ UNCHANGED edFrame
    \/ \E txt \in InputTexts : TypeStep(txt) /\ UNCHANGED edFrame
    \/ BackspaceStep /\ UNCHANGED edFrame

SpecPairs == InitMode /\ [][NextPairs]_vars

\* ------------------------------------------------------------ column editing

\* The height of a line in pixels, GetLineHeight().Round(); a rune is one
\* pixel wide.
LineHeight == 2

\* The largest pointer coordinate and the largest scroll offset.
MaxCoord == 5
MaxScrollY == 2

\* The largest document and the largest col of a cursor after a column
\* input, and the longest undo history.
MaxColumnDoc == 9
MaxUndo == 2

\* Go's integer division, which truncates towards zero.
GoDiv(a, b) == IF a >= 0 THEN a \div b ELSE 0 - ((0 - a) \div b)

\* TextView.Paragraphs: the number of paragraphs of the document.
Paragraphs(text) == Cardinality({ i \in 1..Len(text) : text[i] = lineBreak }) + 1

\* The column QueryPos finds on line lineNum at the horizontal position x.
QueryCol(text, lineNum, x) ==
    LET start == StartOfLine(text, lineNum)
    IN edConvertPos(text, lineNum, Max(x, 0)) - start

\* The loop of updateColumnSelection: a cursor for every line from lineNum
\* to endLine that is a paragraph of the document.
RECURSIVE columnCursors(_, _, _, _)
columnCursors(text, lineNum, endLine, startX) ==
    IF lineNum > endLine THEN <<>>
    ELSE IF lineNum < 0 \/ lineNum >= Paragraphs(text)
    THEN columnCursors(text, lineNum + 1, endLine, startX)
    ELSE << [line |-> lineNum, col |-> QueryCol(text, lineNum, startX)] >>
         \o columnCursors(text, lineNum + 1, endLine, startX)

\* updateColumnSelection that keeps the lines behind the last paragraph.
updateColumnSelection_NoClip(e, v, pos) ==
    LET anchor == e.columnEdit.anchor
        startLine == GoDiv(Min(anchor.Y, pos.Y) + v.scrollOff.Y, LineHeight)
        endLine == GoDiv(Max(anchor.Y, pos.Y) + v.scrollOff.Y, LineHeight)
    IN IF Len(e.columnEdit.selections) = 0 THEN e
       ELSE [e EXCEPT !.columnEdit.selections =
                [i \in 1..(endLine - Max(startLine, 0) + 1) |->
                    [line |-> Max(startLine, 0) + i - 1, col |-> 0]]]

\* Editor.updateColumnSelection for the pointer position pos, in the view v.
updateColumnSelection(e, v, pos) ==
    LET anchor == e.columnEdit.anchor
        startX == Min(anchor.X, pos.X)
        startY == Min(anchor.Y, pos.Y)
        endY == Max(anchor.Y, pos.Y)
        startLine == GoDiv(startY + v.scrollOff.Y, LineHeight)
        endLine == GoDiv(endY + v.scrollOff.Y, LineHeight)
    IN IF Len(e.columnEdit.selections) = 0 THEN e
       ELSE [e EXCEPT !.columnEdit.selections =
                         columnCursors(e.text, startLine, endLine, startX)]

\* A press at pos, in the column editing or with the Alt key held: a column
\* selection is started unless there is one; QueryPos finds the closest line
\* and column of the document.
PressStep(pos) ==
    /\ \E l \in { Min(GoDiv(pos.Y + view.scrollOff.Y, LineHeight),
                      Paragraphs(editor.text) - 1) } :
          editor' = IF ColumnEditEnabled(editor) /\ Len(editor.columnEdit.selections) > 0
                    THEN editor
                    ELSE startColumnSelection(editor, pos, l,
                                              QueryCol(editor.text, l, pos.X), TRUE)
    /\ eop' = [NoEdCall EXCEPT !.name = "startColumnSelection", !.flag = TRUE,
                               !.pos = pos]

\* A drag to pos while the column editing is enabled; the pointer may have
\* left the view.
DragStep(pos) ==
    /\ ColumnEditEnabled(editor)
    /\ editor' = updateColumnSelection(editor, view, pos)
    /\ eop' = [NoEdCall EXCEPT !.name = "updateColumnSelection", !.pos = pos]

\* A text input with column cursors.
OnColumnInputStep(txt) ==
    /\ Len(editor.columnEdit.selections) > 0
    /\ \E a \in { onTextInput(editor, txt, editor.caret.start, editor.caret.end) } :
          /\ Len(a.text) <= MaxColumnDoc
          /\ Len(a.undo) <= MaxUndo
          /\ \A k \in 1..Len(a.columnEdit.selections) :
                a.columnEdit.selections[k].col <= MaxColumnDoc
          /\ editor' = a
    /\ eop' = [NoEdCall EXCEPT !.name = "onColumnEditInput", !.text = txt]

UndoEditStep ==
    /\ editor' = edUndo(editor)
    /\ eop' = [NoEdCall EXCEPT !.name = "Undo"]

\* The documents of the column editing: three lines, and one line.
ColumnDocs == { << 97, lineBreak, 98, 99, lineBreak >>, << 97 >> }

\* The texts typed at the column cursors.
ColumnTexts == { << 120 >>, << 120, 121 >> }

\* An editor that follows the undo history, over the document text, in a
\* view scrolled down by y.
NewColumnEditor(text, y) ==
    /\ NewPT(init(<<>>))
    /\ NewHistory(<<>>)
    /\ NewCompletion
    /\ eop = NoEdCall
    /\ textLine = NoLine
    /\ search = NoSearch
    /\ gutter = NewManager
    /\ diff = NoDiff
    /\ editor = [mode |-> ModeNormal, snippetCtx |-> FALSE,
                 columnEdit |-> [enabled |-> FALSE, selections |-> <<>>,
                                 anchor |-> [X |-> 0, Y |-> 0]],
                 text |-> text, caret |-> [start |-> 0, end |-> 0],
                 autoInsertions |-> {},
                 undo |-> <<>>, group |-> [depth |-> 0, fresh |-> FALSE]]
    /\ view = [NewView EXCEPT !.scrollOff.Y = y]

InitColumn == \E text \in ColumnDocs : NewColumnEditor(text, 0)

\* Column selections from the first line down, text inputs at the cursors,
\* undo.
NextColumn ==
    \/ \E x \in 0..1 : PressStep([X |-> x, Y |-> 0]) /\ UNCHANGED edFrame
    \/ \E x \in 0..1, y \in { 1, 3, 5 } :
          DragStep([X |-> x, Y |-> y]) /\ UNCHANGED edFrame
    \/ \E txt \in ColumnTexts : OnColumnInputStep(txt) /\ UNCHANGED edFrame
    \/ UndoEditStep /\ UNCHANGED edFrame
    \/ ClearColumnEditStep /\ UNCHANGED edFrame

SpecColumn == InitColumn /\ [][NextColumn]_vars

\* The document of ColumnDocs in a view scrolled by at most MaxScrollY.
InitDrag ==
    \E text \in ColumnDocs, y \in 0..MaxScrollY :
       /\ y < Paragraphs(text) * LineHeight
       /\ NewColumnEditor(text, y)

\* A press inside the view and drags to any point, also above the view.
NextDrag ==
    \/ \E x \in 0..2, y \in 0..MaxCoord :
          PressStep([X |-> x, Y |-> y]) /\ UNCHANGED edFrame
    \/ \E x \in 0..2, y \in (0 - MaxCoord)..MaxCoord :
          DragStep([X |-> x, Y |-> y]) /\ UNCHANGED edFrame

SpecDrag == InitDrag /\ [][NextDrag]_vars

\* ------------------------------------------------- input in read-only mode

\* A press at pos (Editor.processPointerEvent), with or without the Alt key.
\* In the column editing a column selection is started unless there is one;
\* with Alt it is started in any mode; any other press moves the caret to
\* the point and ends the snippet mode.
ClickStep(pos, alt) ==
    /\ \E l \in { Min(GoDiv(pos.Y + view.scrollOff.Y, LineHeight),
                      Paragraphs(editor.text) - 1) } :
          editor' =
             IF ColumnEditEnabled(editor)
             THEN IF Len(editor.columnEdit.selections) = 0
                  THEN startColumnSelection(editor, pos, l,
                                            QueryCol(editor.text, l, pos.X), TRUE)
                  ELSE editor
             ELSE IF alt
             THEN startColumnSelection(editor, pos, l,
                                       QueryCol(editor.text, l, pos.X), TRUE)
             ELSE LET off == edConvertPos(editor.text, l, Max(pos.X, 0))
                      a == SetCaret(editor, off, off)
                  IN IF a.mode = ModeSnippet THEN setMode(a, ModeNormal) ELSE a
    /\ eop' = [NoEdCall EXCEPT !.name = "processPointerEvent", !.flag = alt,
                               !.pos = pos]

\* A text input, whatever the mode.
TextInputStep(txt) ==
    /\ \E a \in { onTextInput(editor, txt, Min(editor.caret.start, editor.caret.end),
                               Max(editor.caret.start, editor.caret.end)) } :
          /\ Len(a.text) <= MaxColumnDoc
          /\ Len(a.undo) <= MaxUndo
          /\ \A k \in 1..Len(a.columnEdit.selections) :
                a.columnEdit.selections[k].col <= MaxColumnDoc
          /\ editor' = a
    /\ eop' = [NoEdCall EXCEPT !.name = "onTextInput", !.text = txt]

\* An editor in the read-only mode.
InitReadOnly ==
    /\ NewPT(init(<<>>))
    /\ NewHistory(<<>>)
    /\ NewCompletion
    /\ eop = NoEdCall
    /\ view = NewView
    /\ textLine = NoLine
    /\ search = NoSearch
    /\ gutter = NewManager
    /\ diff = NoDiff
    /\ \E text \in ColumnDocs :
          editor = [mode |-> ModeReadOnly, snippetCtx |-> FALSE,
                    columnEdit |-> [enabled |-> FALSE, selections |-> <<>>,
                                    anchor |-> [X |-> 0, Y |-> 0]],
                    text |-> text, caret |-> [start |-> 0, end |-> 0],
                    autoInsertions |-> {},
                    undo |-> <<>>, group |-> [depth |-> 0, fresh |-> FALSE]]

NextReadOnly ==
    \/ \E x \in 0..1, y \in { 0, LineHeight }, alt \in BOOLEAN :
          ClickStep([X |-> x, Y |-> y], alt) /\ UNCHANGED edFrame
    \/ \E x \in 0..1, y \in { 1, 3 } :
          DragStep([X |-> x, Y |-> y]) /\ UNCHANGED edFrame
    \/ TextInputStep(<< 120 >>) /\ UNCHANGED edFrame
    \/ \E shiftPressed \in BOOLEAN :
          OnTabStep(shiftPressed) /\ Len(editor'.undo) <= MaxUndo /\ UNCHANGED edFrame
    \/ OnPasteStep(<< 97 >>) /\ Len(editor'.undo) <= MaxUndo /\ UNCHANGED edFrame
    \/ OnInsertLineBreakStep /\ Len(editor'.undo) <= MaxUndo /\ UNCHANGED edFrame

SpecReadOnly == InitReadOnly /\ [][NextReadOnly]_vars

\* ------------------------------------------------------------ text view

\* The largest document of the text view, in runes.
MaxViewDoc == 3

\* The rune that continues the grapheme cluster of the rune before it (a
\* combining acute accent), and the space.
Combining == 769
Space == 32

\* The ascending sequence of the elements of a set of numbers.
RECURSIVE SortedSeq(_)
SortedSeq(S) ==
    IF S = {} THEN <<>>
    ELSE LET least == CHOOSE x \in S : \A y \in S : x <= y
         IN << least >> \o SortedSeq(S \ { least })

\* The grapheme table of a document: the rune offsets at which a grapheme
\* cluster begins or the document ends, ascending.
Boundaries(text) ==
    SortedSeq({ i \in 0..Len(text) :
                  i = 0 \/ i = Len(text) \/ text[i + 1] # Combining })

\* The width of the widest line of text: runes are one pixel wide and lines
\* are not wrapped.
LineWidth(text) ==
    LET lineStart(i) == CHOOSE j \in 0..i :
                           /\ j = 0 \/ text[j] = lineBreak
                           /\ \A k \in (j + 1)..i : text[k] # lineBreak
        widths == { i - lineStart(i) : i \in 0..Len(text) }
    IN CHOOSE w \in widths : \A u \in widths : u <= w

\* layoutText: the document is shaped anew; a line per paragraph, every
\* rune one pixel wide, every line LineHeight pixels high.
layoutText(v) ==
    [v EXCEPT !.graphemes = Boundaries(v.text),
              !.layouts = @ + 1,
              !.dims = [X |-> LineWidth(v.text), Y |-> Paragraphs(v.text) * LineHeight]]

\* makeValid without the test of the valid flag.
makeValid_Always(v) == [layoutText(v) EXCEPT !.valid = TRUE]

\* textView.makeValid
makeValid(v) == IF v.valid THEN v ELSE [layoutText(v) EXCEPT !.valid = TRUE]

\* textView.invalidate
invalidate(v) == [v EXCEPT !.valid = FALSE]

\* The combinedPos of the rune offset runes in the layout of text.
PosOf(text, runes) ==
    LET start == LineStart(text, runes)
        lineNo == Cardinality({ i \in 1..runes : text[i] = lineBreak })
    IN [runes |-> runes, line |-> lineNo, col |-> runes - start,
        x |-> runes - start, y |-> lineNo * LineHeight]

\* layouter.closestToRune, closestToLineCol and closestToXY on a valid layout.
posToRune(text, runeIdx) == PosOf(text, Max(0, Min(runeIdx, Len(text))))
posToLineCol(text, lineNo, col) ==
    PosOf(text, edConvertPos(text, Max(0, Min(lineNo, Paragraphs(text) - 1)), Max(col, 0)))
posToXY(text, x, y) ==
    posToLineCol(text, IF y < 0 THEN 0 ELSE y \div LineHeight, x)

\* slices.BinarySearch(graphemes, runeIdx): the number of boundaries below
\* runeIdx.
BinarySearch(graphemes, runeIdx) ==
    Cardinality({ i \in 1..Len(graphemes) : graphemes[i] < runeIdx })

\* moveByGraphemes that reads the boundaries of the document as it is.
moveByGraphemes_Rune(v, startRuneidx, graphemes) ==
    [v |-> makeValid(v), runes |-> Max(0, Min(startRuneidx + graphemes, Len(v.text)))]

\* textView.moveByGraphemes(startRuneidx, graphemes): the view after the
\* call and the rune index.
moveByGraphemes(v, startRuneidx, graphemes) ==
    IF Len(v.graphemes) = 0 THEN [v |-> v, runes |-> startRuneidx]
    ELSE LET found == BinarySearch(v.graphemes, startRuneidx)
             idx == Min(Max(found + graphemes, 0), Len(v.graphemes) - 1)
             v1 == makeValid(v)
         IN [v |-> v1, runes |-> posToRune(v1.text, v.graphemes[idx + 1]).runes]

\* textView.clampCursorToGraphemes
clampCursorToGraphemes(v) ==
    LET s == moveByGraphemes(v, v.caret.start, 0)
        e == moveByGraphemes(s.v, v.caret.end, 0)
    IN [e.v EXCEPT !.caret.start = s.runes, !.caret.end = e.runes]

\* textView.MoveCaret(startDelta, endDelta)
tvMoveCaret(v, startDelta, endDelta) ==
    LET s == moveByGraphemes(v, v.caret.start, startDelta)
        e == moveByGraphemes(s.v, v.caret.end, endDelta)
    IN [e.v EXCEPT !.caret = [start |-> s.runes, end |-> e.runes, xoff |-> 0]]

\* updateSelection that clears the selection whatever the action.
updateSelection_AlwaysClear(v, selAct) == [v EXCEPT !.caret.end = v.caret.start]

\* textView.updateSelection and ClearSelection
updateSelection(v, selAct) ==
    IF selAct = selectionClear THEN [v EXCEPT !.caret.end = v.caret.start] ELSE v

\* textView.closestToXYGraphemes: the view after the call and the position.
closestToXYGraphemes(v, x, y) ==
    LET v0 == makeValid(v)
        pos == posToXY(v0.text, x, y)
        firstOption == moveByGraphemes(v0, pos.runes, 0)
        distance == IF firstOption.runes > pos.runes THEN -1 ELSE 1
        secondOption == moveByGraphemes(firstOption.v, firstOption.runes, distance)
        first == posToRune(v0.text, firstOption.runes)
        second == posToRune(v0.text, secondOption.runes)
        abs(d) == IF d < 0 THEN 0 - d ELSE d
    IN [v |-> secondOption.v,
        pos |-> IF abs(first.x - x) > abs(second.x - x) THEN second ELSE first]

\* textView.MoveLines(distance, selAct)
MoveLines(v, distance, selAct) ==
    LET v0 == makeValid(v)
        caretStart == posToRune(v0.text, v0.caret.start)
        x == caretStart.x + v0.caret.xoff
        target == posToLineCol(v0.text, caretStart.line + distance, 0)
        got == closestToXYGraphemes(v0, x, target.y)
    IN updateSelection([got.v EXCEPT !.caret.start = got.pos.runes,
                                     !.caret.xoff = x - got.pos.x], selAct)

\* textView.MovePages(pages, selAct)
MovePages(v, pages, selAct) ==
    LET v0 == makeValid(v)
        caret == posToRune(v0.text, v0.caret.start)
        x == caret.x + v0.caret.xoff
        y == caret.y + pages * v0.viewSize.Y
        got == closestToXYGraphemes(v0, x, y)
    IN updateSelection([got.v EXCEPT !.caret.start = got.pos.runes,
                                     !.caret.xoff = x - got.pos.x], selAct)

\* textView.MoveCoord(pos)
MoveCoord(v, pos) ==
    LET got == closestToXYGraphemes(v, pos.X + v.scrollOff.X, pos.Y + v.scrollOff.Y)
    IN [got.v EXCEPT !.caret.start = got.pos.runes, !.caret.xoff = 0]

\* textView.MoveTextStart(selAct); MaxWidth is the width of the viewport.
MoveTextStart(v, selAct) ==
    LET v0 == makeValid(v)
        caret == posToRune(v0.text, v0.caret.end)
    IN clampCursorToGraphemes(updateSelection(
          [v0 EXCEPT !.caret = [start |-> 0, end |-> caret.runes, xoff |-> 0 - caret.x]],
          selAct))

\* textView.MoveTextEnd(selAct)
MoveTextEnd(v, selAct) ==
    LET v0 == makeValid(v)
        caret == posToRune(v0.text, Len(v0.text))
    IN clampCursorToGraphemes(updateSelection(
          [v0 EXCEPT !.caret.start = caret.runes,
                     !.caret.xoff = v0.viewSize.X - caret.x],
          selAct))

\* textView.MoveLineStart(selAct)
MoveLineStart(v, selAct) ==
    LET v0 == makeValid(v)
        caret == posToLineCol(v0.text, posToRune(v0.text, v0.caret.start).line, 0)
    IN clampCursorToGraphemes(updateSelection(
          [v0 EXCEPT !.caret.start = caret.runes, !.caret.xoff = 0 - caret.x],
          selAct))

\* textView.MoveLineEnd(selAct)
MoveLineEnd(v, selAct) ==
    LET v0 == makeValid(v)
        caret == posToLineCol(v0.text, posToRune(v0.text, v0.caret.start).line,
                              Len(v0.text))
    IN clampCursorToGraphemes(updateSelection(
          [v0 EXCEPT !.caret.start = caret.runes,
                     !.caret.xoff = v0.viewSize.X - caret.x],
          selAct))

\* unicode.IsSpace on the runes in use.
IsSpace(r) == r \in { Space, 9, lineBreak }

\* The rune MoveWord looks at: before the caret when moving backwards, at
\* the caret otherwise; RuneError outside the document.
nextRune(v, direction) ==
    LET at == IF direction < 0 THEN v.caret.start ELSE v.caret.start + 1
    IN IF 1 <= at /\ at <= Len(v.text) THEN v.text[at] ELSE RuneError

\* The loops of MoveWord: the caret moves on while the rune it looks at is
\* a space (spaces = TRUE) or is none, and the caret is not at an end of
\* the document; fuel bounds the number of moves.
RECURSIVE skipRunes(_, _, _, _)
skipRunes(v, direction, spaces, fuel) ==
    LET atEnd == v.caret.start = 0 \/ v.caret.start = Len(v.text)
    IN IF fuel > 0 /\ IsSpace(nextRune(v, direction)) = spaces /\ ~atEnd
       THEN skipRunes(tvMoveCaret(v, direction, 0), direction, spaces, fuel - 1)
       ELSE v

\* textView.MoveWord(distance, selAct) for the distances 1 and -1.
MoveWord(v, direction, selAct) ==
    LET v0 == makeValid(v)
        a == skipRunes(v0, direction, TRUE, Len(v0.text))
        b == tvMoveCaret(a, direction, 0)
        c == skipRunes(b, direction, FALSE, Len(v0.text))
    IN clampCursorToGraphemes(updateSelection(c, selAct))

\* textView.SetCaret(start, end)
tvSetCaret(v, start, end) ==
    LET v0 == makeValid(v)
    IN clampCursorToGraphemes(
          [v0 EXCEPT !.caret.start = posToRune(v0.text, start).runes,
                     !.caret.end = posToRune(v0.text, end).runes])

\* textView.Replace(start, end, s)
tvReplace(v, start0, end0, s) ==
    LET v0 == makeValid(v)
        startPos == posToRune(v0.text, Min(start0, end0)).runes
        endPos == posToRune(v0.text, Max(start0, end0)).runes
        newEnd == startPos + Len(s)
        adjust(pos) == IF newEnd < pos /\ pos <= endPos THEN newEnd
                       ELSE IF endPos < pos THEN pos + (newEnd - endPos)
                       ELSE pos
    IN invalidate([v0 EXCEPT !.text = Splice(v0.text, startPos, endPos, s),
                             !.caret.start = adjust(v0.caret.start),
                             !.caret.end = adjust(v0.caret.end)])

\* textView.Layout in a frame whose constraints give the viewport the size
\* viewSize; changed is whether a shaping parameter (font, size, width,
\* alignment, wrap policy, line height) differs from the last frame's.
tvLayout(v, changed, viewSize) ==
    LET a == makeValid(IF changed THEN invalidate(v) ELSE v)
        b == IF viewSize # a.viewSize
             THEN invalidate([a EXCEPT !.viewSize = viewSize]) ELSE a
    IN makeValid(b)

\* Everything but the text view and the record of the last call.
viewFrame == << originalBuf, modifyBuf, pieces, seqLength, seqBytes, undoStack,
                redoStack, lastAction, lastActionEndIdx, lastInsertPiece,
                ref, op, calls, runBefore, typing, res, compVars,
                editor, textLine, search, gutter, diff >>

\* The text view at the start of a call: layouts counts the layouts that
\* the last call made.
cur == [view EXCEPT !.layouts = 0]

\* The largest horizontal bias of the caret, which SetCaret keeps and the
\* vertical motions add to.
MaxXoff == 3

\* The caret motions, as events of the text view.
Motion(name, after, selAct) ==
    /\ after.caret.xoff \in (0 - MaxXoff)..MaxXoff
    /\ view' = after
    /\ eop' = [NoEdCall EXCEPT !.name = name, !.selAct = selAct]
    /\ UNCHANGED viewFrame

MotionNames ==
    { "MoveCaret", "MoveLines", "MovePages", "MoveWord", "MoveLineStart",
      "MoveLineEnd", "MoveTextStart", "MoveTextEnd", "MoveCoord", "SetCaret" }

TvLayoutStep(viewSize) ==
    /\ view' = tvLayout(cur, FALSE, viewSize)
    /\ eop' = [NoEdCall EXCEPT !.name = "Layout"]
    /\ UNCHANGED viewFrame

\* The selection is replaced by s.
TvReplaceStep(s) ==
    /\ \E a \in { tvReplace(cur, view.caret.start, view.caret.end, s) } :
          /\ Len(a.text) <= MaxViewDoc
          /\ a.text # view.text
          /\ view' = a
    /\ eop' = [NoEdCall EXCEPT !.name = "Replace", !.text = s]
    /\ UNCHANGED viewFrame

\* The documents the text view starts with, and the texts typed into them.
ViewDocs == { <<>>, << 97, Combining >>, << 97, Space, 97 >>, << 97, lineBreak, 97 >> }
ViewTexts == { <<>>, << Combining >> }

\* The size of the viewport: two pixels wide, a line high.
ViewSize == [X |-> 2, Y |-> LineHeight]

\* A text view over a document of ViewDocs, before its first layout.
InitCaret ==
    /\ NewPT(init(<<>>))
    /\ NewHistory(<<>>)
    /\ NewCompletion
    /\ editor = NewEditorRec(<<>>)
    /\ eop = NoEdCall
    /\ textLine = NoLine
    /\ search = NoSearch
    /\ gutter = NewManager
    /\ diff = NoDiff
    /\ \E text \in ViewDocs : view = [NewView EXCEPT !.text = text]

\* Layouts, edits and caret motions in any order.
NextCaret ==
    \/ TvLayoutStep(ViewSize)
    \/ \E s \in ViewTexts : TvReplaceStep(s)
    \/ \E d \in { << -1, 0 >>, << 1, 0 >>, << 0, 0 >>, << 1, 1 >> } :
          Motion("MoveCaret", tvMoveCaret(cur, d[1], d[2]), selectionExtend)
    \/ \E d \in { -1, 1 }, selAct \in { selectionClear, selectionExtend } :
          Motion("MoveLines", MoveLines(cur, d, selAct), selAct)
    \/ \E d \in { -1, 1 }, selAct \in { selectionClear, selectionExtend } :
          Motion("MovePages", MovePages(cur, d, selAct), selAct)
    \/ \E d \in { -1, 1 }, selAct \in { selectionClear, selectionExtend } :
          Motion("MoveWord", MoveWord(cur, d, selAct), selAct)
    \/ \E selAct \in { selectionClear, selectionExtend } :
          Motion("MoveLineStart", MoveLineStart(cur, selAct), selAct)
    \/ \E selAct \in { selectionClear, selectionExtend } :
          Motion("MoveLineEnd", MoveLineEnd(cur, selAct), selAct)
    \/ \E selAct \in { selectionClear, selectionExtend } :
          Motion("MoveTextStart", MoveTextStart(cur, selAct), selAct)
    \/ \E selAct \in { selectionClear, selectionExtend } :
          Motion("MoveTextEnd", MoveTextEnd(cur, selAct), selAct)
    \/ \E x \in { 0, 2 }, y \in { 0, LineHeight } :
          Motion("MoveCoord", MoveCoord(cur, [X |-> x, Y |-> y]), selectionExtend)
    \/ \E start \in 0..MaxViewDoc :
          Motion("SetCaret", tvSetCaret(cur, start, start), selectionExtend)

SpecCaret == InitCaret /\ [][NextCaret]_vars

\* The motions that take a selection action.
SelectionMotions ==
    { "MoveLines", "MovePages", "MoveWord", "MoveLineStart", "MoveLineEnd",
      "MoveTextStart", "MoveTextEnd" }

\* Layouts, insertions of a combining mark at the caret and the caret
\* motions that take a selection action, in any order.
NextSelect ==
    \/ TvLayoutStep(ViewSize)
    \/ TvReplaceStep(<< Combining >>)
    \/ \E d \in { -1, 1 }, selAct \in { selectionClear, selectionExtend } :
          Motion("MoveLines", MoveLines(cur, d, selAct), selAct)
    \/ \E d \in { -1, 1 }, selAct \in { selectionClear, selectionExtend } :
          Motion("MovePages", MovePages(cur, d, selAct), selAct)
    \/ \E d \in { -1, 1 }, selAct \in { selectionClear, selectionExtend } :
          Motion("MoveWord", MoveWord(cur, d, selAct), selAct)
    \/ \E selAct \in { selectionClear, selectionExtend } :
          Motion("MoveLineStart", MoveLineStart(cur, selAct), selAct)
    \/ \E selAct \in { selectionClear, selectionExtend } :
          Motion("MoveLineEnd", MoveLineEnd(cur, selAct), selAct)
    \/ \E selAct \in { selectionClear, selectionExtend } :
          Motion("MoveTextStart", MoveTextStart(cur, selAct), selAct)
    \/ \E selAct \in { selectionClear, selectionExtend } :
          Motion("MoveTextEnd", MoveTextEnd(cur, selAct), selAct)

SpecSelect == InitCaret /\ [][NextSelect]_vars

\* ---------------------------------------------------------------------
\* Scrolling of the text view.

\* The width reserved for the caret in an empty view.
CaretWidth == 1

\* layout.Constraints.Constrain
Constrain(size, cs) ==
    [X |-> Max(cs.min.X, Min(size.X, cs.max.X)),
     Y |-> Max(cs.min.Y, Min(size.Y, cs.max.Y))]

\* TextView.calculateViewSize
calculateViewSize(v, cs) ==
    Constrain([X |-> Max(v.dims.X, CaretWidth), Y |-> v.dims.Y], cs)

\* textView.Layout under the constraints cs: the view size is computed from
\* the dimensions the first makeValid leaves.
tvLayoutFrame(v, changed, cs) ==
    tvLayout(v, changed,
             calculateViewSize(makeValid(IF changed THEN invalidate(v) ELSE v), cs))

\* textView.ScrollBounds: the rectangle has no horizontal extent.
ScrollBounds(v) ==
    [Min |-> [X |-> 0, Y |-> 0],
     Max |-> [X |-> 0, Y |-> v.dims.Y - v.viewSize.Y]]

\* textView.scrollAbs
scrollAbs(v, x, y) ==
    LET b == ScrollBounds(v)
        x1 == IF x > b.Max.X THEN b.Max.X ELSE x
        x2 == IF x1 < b.Min.X THEN b.Min.X ELSE x1
        y1 == IF y > b.Max.Y THEN b.Max.Y ELSE y
        y2 == IF y1 < b.Min.Y THEN b.Min.Y ELSE y1
    IN [v EXCEPT !.scrollOff = [X |-> x2, Y |-> y2]]

\* textView.ScrollRel
ScrollRel(v, dx, dy) == scrollAbs(v, v.scrollOff.X + dx, v.scrollOff.Y + dy)

\* Layout under the constraints cs: the view size is computed from the
\* dimensions of the laid-out text.
ScrollLayoutStep(cs) ==
    /\ view' = tvLayoutFrame(cur, FALSE, cs)
    /\ eop' = [NoEdCall EXCEPT !.name = "Layout"]
    /\ UNCHANGED viewFrame

ScrollAbsStep(x, y) ==
    /\ view' = scrollAbs(cur, x, y)
    /\ eop' = [NoEdCall EXCEPT !.name = "scrollAbs", !.pos = [X |-> x, Y |-> y]]
    /\ UNCHANGED viewFrame

ScrollRelStep(dx, dy) ==
    /\ view' = ScrollRel(cur, dx, dy)
    /\ eop' = [NoEdCall EXCEPT !.name = "ScrollRel", !.pos = [X |-> dx, Y |-> dy]]
    /\ UNCHANGED viewFrame

\* x clamped to [lo, hi], for lo <= hi.
Clamp(x, lo, hi) == Max(lo, Min(x, hi))

\* The largest distance and offset requested of the scroll operations.
MaxScroll == 3

\* The constraints the view is laid out under: a small window, a large one
\* and one of a fixed size larger than the text.
ScrollConstraints ==
    { [min |-> [X |-> 0, Y |-> 0], max |-> [X |-> 2, Y |-> LineHeight]],
      [min |-> [X |-> 0, Y |-> 0], max |-> [X |-> 4, Y |-> 3 * LineHeight]],
      [min |-> [X |-> 4, Y |-> 3 * LineHeight], max |-> [X |-> 4, Y |-> 3 * LineHeight]] }

NextScroll ==
    \/ \E cs \in ScrollConstraints : ScrollLayoutStep(cs)
    \/ \E x \in -1..MaxScroll, y \in -1..MaxScroll : ScrollAbsStep(x, y)
    \/ \E dx \in { -1, 0, 1 }, dy \in { -1, 0, 1 } : ScrollRelStep(dx, dy)

SpecScroll == InitCaret /\ [][NextScroll]_vars

\* ---------------------------------------------------------------------
\* Invalidation of the layout and the queries that lay the text out again.

\* textView.SetText
tvSetText(v, s) == invalidate([v EXCEPT !.text = s])

\* textView.Len
tvLen(v) == makeValid(makeValid(v))

\* The most invalidations counted between two layouts.
MaxInvalidations == 3

\* The invalidations since the last layout, after one more.
Invalidated == IF view.valid THEN 1 ELSE eop.invalidations + 1

\* The invalidations a query finds.
Pending == IF view.valid THEN 0 ELSE eop.invalidations

SetTextStep(s) ==
    /\ Invalidated <= MaxInvalidations
    /\ view' = tvSetText(cur, s)
    /\ eop' = [NoEdCall EXCEPT !.name = "SetText", !.text = s,
                               !.invalidations = Invalidated]
    /\ UNCHANGED viewFrame

\* Replace lays the text out to find its positions and invalidates the
\* layout at its end.
EditStep(s) ==
    /\ \E a \in { tvReplace(cur, view.caret.start, view.caret.end, s) } :
          /\ Len(a.text) <= MaxViewDoc
          /\ view' = a
    /\ eop' = [NoEdCall EXCEPT !.name = "Replace", !.text = s,
                               !.invalidations = 1]
    /\ UNCHANGED viewFrame

LenStep ==
    /\ view' = tvLen(cur)
    /\ eop' = [NoEdCall EXCEPT !.name = "Len", !.invalidations = Pending]
    /\ UNCHANGED viewFrame

FrameStep(changed, cs) ==
    /\ view' = tvLayoutFrame(cur, changed, cs)
    /\ eop' = [NoEdCall EXCEPT !.name = "Layout", !.flag = changed,
                               !.invalidations = Pending]
    /\ UNCHANGED viewFrame

NextLayout ==
    \/ \E s \in ViewDocs : SetTextStep(s)
    \/ \E s \in ViewTexts : EditStep(s)
    \/ LenStep
    \/ \E changed \in BOOLEAN, cs \in ScrollConstraints : FrameStep(changed, cs)

SpecLayout == InitCaret /\ [][NextLayout]_vars

\* ---------------------------------------------------------------------
\* The horizontal positions of the glyphs of a line (Line.recompute).

\* The sum of the advances of the glyphs a..b of g.
RECURSIVE SumAdvance(_, _, _)
SumAdvance(g, a, b) ==
    IF a > b THEN 0 ELSE g[a].Advance + SumAdvance(g, a + 1, b)

\* A run that ends after its first glyph, whatever the directions.
RunEnd_One(g, runStart) == runStart + 1

\* The index after the run of one direction that starts at runStart.
RunEnd(g, runStart) ==
    CHOOSE i \in (runStart + 1)..(Len(g) + 1) :
       /\ i = Len(g) + 1 \/ g[i].rtl # g[runStart].rtl
       /\ \A k \in runStart..(i - 1) : g[k].rtl = g[runStart].rtl

\* Where the cursor of a right-to-left run starts: at the left edge.
rtlCursor_Left(alignOff, xOff, runWidth) == alignOff + xOff

\* Where the cursor of a right-to-left run starts: at the right edge of the
\* run.
rtlCursor(alignOff, xOff, runWidth) == alignOff + xOff + runWidth

\* The runs of g from runStart on, laid out from xOff.
RECURSIVE layoutRuns(_, _, _, _)
layoutRuns(g, runStart, xOff, alignOff) ==
    IF runStart > Len(g) THEN g
    ELSE LET i == RunEnd(g, runStart)
             runWidth == SumAdvance(g, runStart, i - 1)
             placed(j) ==
                 [g[j] EXCEPT
                    !.X = IF g[runStart].rtl
                          THEN rtlCursor(alignOff, xOff, runWidth)
                                 - SumAdvance(g, runStart, j)
                          ELSE alignOff + xOff + SumAdvance(g, runStart, j - 1),
                    !.lineBreak = @ \/ j = Len(g)]
         IN layoutRuns([j \in 1..Len(g) |->
                          IF runStart <= j /\ j < i THEN placed(j) ELSE g[j]],
                       i, xOff + runWidth, alignOff)

\* Line.recompute
recompute(li, alignOff, runeOff) ==
    IF Len(li.Glyphs) = 0 THEN [li EXCEPT !.RuneOff = runeOff]
    ELSE [li EXCEPT !.Glyphs = layoutRuns(li.Glyphs, 1, 0, alignOff),
                    !.RuneOff = runeOff]

\* Everything but the line and the record of the last call.
lineFrame == << originalBuf, modifyBuf, pieces, seqLength, seqBytes, undoStack,
                redoStack, lastAction, lastActionEndIdx, lastInsertPiece,
                ref, op, calls, runBefore, typing, res, compVars,
                editor, view, search, gutter, diff >>

RecomputeStep(alignOff, runeOff) ==
    /\ textLine' = recompute(textLine, alignOff, runeOff)
    /\ eop' = [NoEdCall EXCEPT !.name = "recompute",
                               !.pos = [X |-> alignOff, Y |-> runeOff]]
    /\ UNCHANGED lineFrame

\* The most glyphs of a line, their largest advance and the largest
\* alignment offset.
MaxGlyphs == 3
MaxAdvance == 2
MaxAlign == 2

\* The glyphs as the shaper hands them over.
ShapedGlyphs ==
    [Advance : 0..MaxAdvance, rtl : BOOLEAN, X : { 0 }, lineBreak : { FALSE }]

ShapedLines ==
    UNION { [1..n -> ShapedGlyphs] : n \in 0..MaxGlyphs }

InitLine ==
    /\ NewPT(init(<<>>))
    /\ NewHistory(<<>>)
    /\ NewCompletion
    /\ editor = NewEditorRec(<<>>)
    /\ eop = NoEdCall
    /\ view = NewView
    /\ search = NoSearch
    /\ gutter = NewManager
    /\ diff = NoDiff
    /\ \E g \in ShapedLines : textLine = [NoLine EXCEPT !.Glyphs = g]

NextLine ==
    \E alignOff \in -1..MaxAlign, runeOff \in { 0, 1 } :
       RecomputeStep(alignOff, runeOff)

SpecLine == InitLine /\ [][NextLine]_vars

\* ---------------------------------------------------------------------
\* The occurrences of a word (TextView.FindAllWordOccurrences).

\* defaultWordSeperators: `~!@#$%^&*()-=+[{]}\|;:'",.<>/?
defaultWordSeperators ==
    { 96, 126, 33, 64, 35, 36, 37, 94, 38, 42, 40, 41, 45, 61, 43, 91, 123,
      93, 125, 92, 124, 59, 58, 39, 34, 44, 46, 60, 62, 47, 63 }

\* TextView.IsWordSeperator, with no separators of the user's own.
IsWordSeperator(r) == r \in defaultWordSeperators \/ IsSpace(r)

\* The separator function of the word operations.
separator(r, bySpace) == IF bySpace THEN IsSpace(r) ELSE IsWordSeperator(r)

\* The offset of the first rune from i on that is a separator (want = TRUE)
\* or is none (want = FALSE), and the length of text when there is none.
RECURSIVE scanTo(_, _, _, _)
scanTo(text, i, bySpace, want) ==
    IF i >= Len(text) \/ separator(text[i + 1], bySpace) = want THEN i
    ELSE scanTo(text, i + 1, bySpace, want)

\* The scan of the document from the offset i.
RECURSIVE findLoop(_, _, _, _, _)
findLoop(text, i, targetWord, bySpace, occurrences) ==
    LET wordLen == Len(targetWord)
        wordStart == scanTo(text, i, bySpace, FALSE)
        wordEnd == scanTo(text, wordStart, bySpace, TRUE)
        \* the runes are collected until one more than wordLen is read
        next == Min(wordEnd, wordStart + wordLen + 1)
        wordBuf == SubSeq(text, wordStart + 1, next)
    IN IF i >= Len(text) \/ wordStart >= Len(text) THEN occurrences
       ELSE findLoop(text, next, targetWord, bySpace,
                     IF Len(wordBuf) = wordLen /\ wordBuf = targetWord
                     THEN Append(occurrences, << wordStart, wordStart + wordLen >>)
                     ELSE occurrences)

\* TextView.FindAllWordOccurrences
FindAllWordOccurrences(text, start, end, bySpace) ==
    IF start >= end THEN << >>
    ELSE IF start < 0 \/ end > Len(text) THEN << >>
    ELSE findLoop(text, 0, SubSeq(text, start + 1, end), bySpace, << >>)

\* Everything but the word search and the record of the last call.
searchFrame == << originalBuf, modifyBuf, pieces, seqLength, seqBytes, undoStack,
                  redoStack, lastAction, lastActionEndIdx, lastInsertPiece,
                  ref, op, calls, runBefore, typing, res, compVars,
                  editor, view, textLine, gutter, diff >>

FindStep(start, end, bySpace) ==
    /\ search' = [search EXCEPT
                    !.start = start, !.end = end, !.bySpace = bySpace,
                    !.occurrences =
                       FindAllWordOccurrences(search.text, start, end, bySpace)]
    /\ eop' = [NoEdCall EXCEPT !.name = "FindAllWordOccurrences"]
    /\ UNCHANGED searchFrame

\* The longest document searched, and the documents: a letter, a space and
\* a full stop in any order.
MaxSearchDoc == 5
FullStop == 46

SearchDocs ==
    UNION { [1..n -> { 97, Space, FullStop }] : n \in 0..MaxSearchDoc }

InitSearch ==
    /\ NewPT(init(<<>>))
    /\ NewHistory(<<>>)
    /\ NewCompletion
    /\ editor = NewEditorRec(<<>>)
    /\ eop = NoEdCall
    /\ view = NewView
    /\ textLine = NoLine
    /\ gutter = NewManager
    /\ diff = NoDiff
    /\ \E text \in SearchDocs : search = [NoSearch EXCEPT !.text = text]

NextSearch ==
    \E start \in 0..Len(search.text), end \in 0..(Len(search.text) + 1),
       bySpace \in BOOLEAN :
       FindStep(start, end, bySpace)

SpecSearch == InitSearch /\ [][NextSearch]_vars

\* ---------------------------------------------------------------------
\* The word around the caret (TextView.WordBoundariesAt).

\* readBySeperator that reads one rune at most.
readBySeperator_One(text, direction, caretOff, bySpace) ==
    IF caretOff < 0 \/ caretOff >= Len(text) THEN << >>
    ELSE IF separator(text[caretOff + 1], bySpace) THEN << >>
    ELSE << text[caretOff + 1] >>

\* TextView.readBySeperator: the runes from caretOff on, in the given
\* direction, up to a separator or an end of the document. ReadRuneAt
\* fails at the length of the document.
RECURSIVE readBySeperator(_, _, _, _)
readBySeperator(text, direction, caretOff, bySpace) ==
    IF caretOff < 0 \/ caretOff >= Len(text) THEN << >>
    ELSE IF separator(text[caretOff + 1], bySpace) THEN << >>
    ELSE IF direction < 0
         THEN Append(readBySeperator(text, direction, caretOff - 1, bySpace),
                     text[caretOff + 1])
         ELSE << text[caretOff + 1] >>
                 \o readBySeperator(text, direction, caretOff + 1, bySpace)

\* TextView.WordBoundariesAt
WordBoundariesAt(text, caret, bySpace) ==
    LET left == readBySeperator(text, -1, caret - 1, bySpace)
        right == readBySeperator(text, 1, caret, bySpace)
    IN [start |-> caret - Len(left), end |-> caret + Len(right)]

WordBoundariesStep(caret, bySpace) ==
    /\ \E w \in { WordBoundariesAt(search.text, caret, bySpace) } :
          search' = [search EXCEPT !.start = w.start, !.end = w.end,
                                   !.bySpace = bySpace, !.occurrences = << >>]
    /\ eop' = [NoEdCall EXCEPT !.name = "WordBoundariesAt",
                               !.pos = [X |-> caret, Y |-> 0]]
    /\ UNCHANGED searchFrame

NextWord ==
    \E caret \in 0..Len(search.text), bySpace \in BOOLEAN :
       WordBoundariesStep(caret, bySpace)

SpecWord == InitSearch /\ [][NextWord]_vars

\* ---------------------------------------------------------------------
\* The providers of the gutter (gutter.Manager).

\* The greatest priority of a provider, and the gap between two columns.
MaxPriority == 1
GapPx == 2

\* The providers there are: an ID, a priority and the width of the column.
ProviderIDs == { "a", "b", "c" }
Providers == [id : ProviderIDs, priority : 0..MaxPriority, width : { 1 }]

\* The index of the provider with the given ID, 0 when there is none.
IndexOfID(providers, id) ==
    IF \E i \in 1..Len(providers) : providers[i].id = id
    THEN CHOOSE i \in 1..Len(providers) :
            /\ providers[i].id = id
            /\ \A j \in 1..(i - 1) : providers[j].id # id
    ELSE 0

\* Manager.sortProviders: sort.Slice is not stable, so providers of equal
\* priority end in any order. The results the sort can produce.
sortProviders(providers) ==
    LET n == Len(providers)
    IN { [i \in 1..n |-> providers[f[i]]] :
           f \in { g \in [1..n -> 1..n] :
                     /\ \A i, j \in 1..n : i # j => g[i] # g[j]
                     /\ \A i \in 1..(n - 1) :
                          providers[g[i]].priority >= providers[g[i + 1]].priority } }

\* Register that appends without looking for the ID.
Register_Append(m, provider) ==
    { [m EXCEPT !.providers = ps] : ps \in sortProviders(Append(m.providers, provider)) }

\* Manager.Register: the managers the call can leave.
Register(m, provider) ==
    LET i == IndexOfID(m.providers, provider.id)
        listed == IF i > 0 THEN [m.providers EXCEPT ![i] = provider]
                  ELSE Append(m.providers, provider)
    IN { [m EXCEPT !.providers = ps] : ps \in sortProviders(listed) }

\* Manager.Unregister
Unregister(m, id) ==
    LET i == IndexOfID(m.providers, id)
    IN IF i = 0 THEN m
       ELSE [m EXCEPT !.providers = SubSeq(@, 1, i - 1) \o SubSeq(@, i + 1, Len(@)),
                      !.providerBounds = MapDelete(@, id),
                      !.providerWidths = MapDelete(@, id)]

\* The left edge of the column of the i-th provider.
RECURSIVE xOffsetOf(_, _)
xOffsetOf(providers, i) ==
    IF i <= 1 THEN 0
    ELSE xOffsetOf(providers, i - 1) + providers[i - 1].width + GapPx

\* The maps after the columns 1..i are laid out.
RECURSIVE layoutColumns(_, _)
layoutColumns(m, i) ==
    IF i = 0 THEN m
    ELSE LET p == m.providers[i]
             x == xOffsetOf(m.providers, i)
             before == layoutColumns(m, i - 1)
         IN [before EXCEPT
               !.providerWidths = MapPut(@, p.id, p.width),
               !.providerBounds = MapPut(@, p.id, [Min |-> x, Max |-> x + p.width])]

\* Manager.Layout
gutterLayout(m) ==
    IF Len(m.providers) = 0 THEN [m EXCEPT !.totalWidth = 0]
    ELSE LET n == Len(m.providers)
         IN [layoutColumns(m, n) EXCEPT
               !.totalWidth = xOffsetOf(m.providers, n) + m.providers[n].width]

\* Everything but the gutter.
gutterFrame == << originalBuf, modifyBuf, pieces, seqLength, seqBytes, undoStack,
                  redoStack, lastAction, lastActionEndIdx, lastInsertPiece,
                  ref, op, calls, runBefore, typing, res, compVars,
                  editor, eop, view, textLine, search, diff >>

RegisterStep(provider) ==
    /\ \E m \in Register([gutter EXCEPT !.call = [name |-> "Register", id |-> provider.id,
                                                   priority |-> provider.priority]],
                         provider) :
          gutter' = m
    /\ UNCHANGED gutterFrame

UnregisterStep(id) ==
    /\ gutter' = Unregister([gutter EXCEPT !.call = [name |-> "Unregister", id |-> id,
                                                     priority |-> 0]], id)
    /\ UNCHANGED gutterFrame

GutterLayoutStep ==
    /\ gutter' = gutterLayout([gutter EXCEPT !.call = [name |-> "Layout", id |-> "", priority |-> 0]])
    /\ UNCHANGED gutterFrame

InitGutter ==
    /\ NewPT(init(<<>>))
    /\ NewHistory(<<>>)
    /\ NewCompletion
    /\ NewEditor(<<>>)

NextGutter ==
    \/ \E provider \in Providers : RegisterStep(provider)
    \/ \E id \in ProviderIDs : UnregisterStep(id)
    \/ GutterLayoutStep

SpecGutter == InitGutter /\ [][NextGutter]_vars

\* ---------------------------------------------------------------------
\* The hunks of a diff (ParseGitDiff, parseDiffOutput). A line is the
\* sequence of its characters.

\* The characters '-', '+', ',', '@' and '0'.
Minus == 45
Plus == 43
Comma == 44
AtSign == 64
Zero == 48

\* strings.HasPrefix and strings.TrimPrefix
HasPrefix(line, prefix) ==
    /\ Len(line) >= Len(prefix)
    /\ SubSeq(line, 1, Len(prefix)) = prefix
TrimPrefix(line, prefix) ==
    IF HasPrefix(line, prefix) THEN SubSeq(line, Len(prefix) + 1, Len(line))
    ELSE line

\* Whether the characters of lit stand in line from the index i on.
HasAt(line, i, lit) ==
    /\ i + Len(lit) - 1 <= Len(line)
    /\ SubSeq(line, i, i + Len(lit) - 1) = lit

\* \d
IsDigit(ch) == Zero <= ch /\ ch <= Zero + 9

\* The index of the last digit of the longest run of digits of line that
\* starts at i (i - 1 when there is no digit at i).
RECURSIVE DigitsEnd(_, _)
DigitsEnd(line, i) ==
    IF i <= Len(line) /\ IsDigit(line[i]) THEN DigitsEnd(line, i + 1) ELSE i - 1

\* strconv.Atoi of the digits a..b of line.
RECURSIVE Atoi(_, _, _)
Atoi(line, a, b) ==
    IF a > b THEN 0 ELSE Atoi(line, a, b - 1) * 10 + (line[b] - Zero)

\* (\d+) at i: whether it matches, the number and the index after it.
Number(line, i) ==
    LET e == DigitsEnd(line, i)
    IN [ok |-> e >= i, val |-> Atoi(line, i, e), next |-> e + 1]

\* (?:,(\d+))? at i: the count, 1 when the group is absent, and the index
\* after it.
Count(line, i) ==
    LET n == Number(line, i + 1)
    IN IF HasAt(line, i, << Comma >>) /\ n.ok THEN [val |-> n.val, next |-> n.next]
       ELSE [val |-> 1, next |-> i]

\* hunkHeaderRe.FindStringSubmatch(line) and the conversion of its groups:
\* ^@@ -(\d+)(?:,(\d+))? \+(\d+)(?:,(\d+))? @@
hunkHeader(line) ==
    LET oldStart == Number(line, 5)
        oldCount == Count(line, oldStart.next)
        newStart == Number(line, oldCount.next + 2)
        newCount == Count(line, newStart.next)
    IN [ok |-> /\ HasAt(line, 1, << AtSign, AtSign, Space, Minus >>)
               /\ oldStart.ok
               /\ HasAt(line, oldCount.next, << Space, Plus >>)
               /\ newStart.ok
               /\ HasAt(line, newCount.next, << Space, AtSign, AtSign >>),
        oldStart |-> oldStart.val, oldCount |-> oldCount.val,
        newStart |-> newStart.val, newCount |-> newCount.val]

\* The hunk that parseDiffOutput starts at a hunk header.
newHunk(hd) ==
    LET newStart == hd.newStart - 1
        diffType == IF hd.oldCount = 0 THEN "DiffAdded"
                    ELSE IF hd.newCount = 0 THEN "DiffDeleted"
                    ELSE "DiffModified"
    IN [Type |-> diffType,
        StartLine |-> newStart,
        EndLine |-> IF diffType = "DiffDeleted" THEN newStart
                    ELSE newStart + Max(hd.newCount - 1, 0),
        OldLines |-> << >>, NewLines |-> << >>]

\* The file header lines that parseDiffOutput skips: "diff ", "index ",
\* "--- " and "+++ ".
HeaderPrefixes ==
    { << 100, 105, 102, 102, Space >>, << 105, 110, 100, 101, 120, Space >>,
      << Minus, Minus, Minus, Space >>, << Plus, Plus, Plus, Space >> }

\* Whether parseDiffOutput skips line as a file header.
isFileHeader(line) ==
    \E prefix \in HeaderPrefixes : HasPrefix(line, prefix)

\* The loop of parseDiffOutput from the line k on: hunks are the finished
\* hunks, currentHunk the open one (a sequence of at most one hunk).
RECURSIVE scanLines(_, _, _, _, _)
scanLines(lines, k, hunks, currentHunk, inHunk) ==
    IF k > Len(lines) THEN hunks \o currentHunk
    ELSE LET line == lines[k]
             hd == hunkHeader(line)
         IN IF hd.ok
            THEN scanLines(lines, k + 1, hunks \o currentHunk, << newHunk(hd) >>, TRUE)
            ELSE IF isFileHeader(line)
            THEN scanLines(lines, k + 1, hunks, currentHunk, inHunk)
            ELSE IF inHunk /\ Len(currentHunk) > 0
            THEN LET h == currentHunk[1]
                     h1 == IF HasPrefix(line, << Minus >>)
                           THEN [h EXCEPT !.OldLines = Append(@, TrimPrefix(line, << Minus >>))]
                           ELSE IF HasPrefix(line, << Plus >>)
                           THEN [h EXCEPT !.NewLines = Append(@, TrimPrefix(line, << Plus >>))]
                           ELSE h
                 IN scanLines(lines, k + 1, hunks, << h1 >>, inHunk)
            ELSE scanLines(lines, k + 1, hunks, currentHunk, inHunk)

\* parseDiffOutput(output), the output given as its lines.
parseDiffOutput(lines) == scanLines(lines, 1, << >>, << >>, FALSE)

\* The decimal digits of a number below 100, as git writes it.
Itoa(n) == IF n < 10 THEN << Zero + n >> ELSE << Zero + (n \div 10), Zero + (n % 10) >>

\* A start and a count as git writes them: the count is left out when it
\* is 1.
RangeText(start, count) ==
    Itoa(start) \o (IF count = 1 THEN << >> ELSE << Comma >> \o Itoa(count))

\* The lines git writes for one hunk with no context lines (-U0): the header,
\* the removed lines and the added lines.
HunkLines(c) ==
    << << AtSign, AtSign, Space, Minus >> \o RangeText(c.oldStart, Len(c.removed))
         \o << Space, Plus >> \o RangeText(c.newStart, Len(c.added))
         \o << Space, AtSign, AtSign >> >>
      \o [i \in 1..Len(c.removed) |-> << Minus >> \o c.removed[i]]
      \o [i \in 1..Len(c.added) |-> << Plus >> \o c.added[i]]

\* The output of git diff for the changes cs: the four file header lines
\* "diff a", "index a", "--- a", "+++ a" and the lines of the hunks.
RECURSIVE AllHunkLines(_, _)
AllHunkLines(cs, k) ==
    IF k > Len(cs) THEN << >> ELSE HunkLines(cs[k]) \o AllHunkLines(cs, k + 1)
DiffOutput(cs) ==
    IF Len(cs) = 0 THEN << >>
    ELSE << << 100, 105, 102, 102, Space, 97 >>, << 105, 110, 100, 101, 120, Space, 97 >>,
            << Minus, Minus, Minus, Space, 97 >>, << Plus, Plus, Plus, Space, 97 >> >>
           \o AllHunkLines(cs, 1)

\* Everything but the diff and the record of the last call.
diffFrame == << originalBuf, modifyBuf, pieces, seqLength, seqBytes, undoStack,
                redoStack, lastAction, lastActionEndIdx, lastInsertPiece,
                ref, op, calls, runBefore, typing, res, compVars,
                editor, view, textLine, search, gutter >>

\* ParseGitDiff on the file, whose changes are diff.made.
ParseGitDiffStep ==
    /\ diff' = [diff EXCEPT
                  !.lines = DiffOutput(diff.made),
                  !.hunks = IF Len(DiffOutput(diff.made)) = 0 THEN << >>
                            ELSE parseDiffOutput(DiffOutput(diff.made))]
    /\ eop' = [NoEdCall EXCEPT !.name = "ParseGitDiff"]
    /\ UNCHANGED diffFrame

\* The most hunks of a diff and the most lines a hunk removes or adds.
MaxHunks == 2
MaxCount == 2

\* The lines of the file: "a", and the comment lines "-- a" and "++ a".
DiffContents ==
    { << 97 >>, << Minus, Minus, Space, 97 >>, << Plus, Plus, Space, 97 >> }

\* The changes of one hunk whose lines all read content; the k-th hunk
\* starts at the line 8 * k - 3 of the new file.
Changes(k, content) ==
    { [oldStart |-> 8 * k - 2, newStart |-> 8 * k - 3,
       removed |-> [i \in 1..t[1] |-> content], added |-> [i \in 1..t[2] |-> content]] :
         t \in { u \in (0..MaxCount) \X (0..MaxCount) : u[1] + u[2] > 0 } }

\* The changes of a file: none, or up to MaxHunks hunks in ascending order.
RECURSIVE ChangeLists(_, _)
ChangeLists(n, content) ==
    IF n = 0 THEN { << >> }
    ELSE { Append(cs, c) : cs \in ChangeLists(n - 1, content), c \in Changes(n, content) }
DiffInputs ==
    UNION { ChangeLists(n, content) : n \in 0..MaxHunks, content \in DiffContents }

\* A file with changes that git diff was not yet run on.
InitDiff ==
    /\ NewPT(init(<<>>))
    /\ NewHistory(<<>>)
    /\ NewCompletion
    /\ editor = NewEditorRec(<<>>)
    /\ eop = NoEdCall
    /\ view = NewView
    /\ textLine = NoLine
    /\ search = NoSearch
    /\ gutter = NewManager
    /\ \E cs \in DiffInputs : diff = [NoDiff EXCEPT !.made = cs]

NextDiff == ParseGitDiffStep

SpecDiff == InitDiff /\ [][NextDiff]_vars

\* C17: after any sequence of setMode and SetColumnEditMode calls, in a mode
\* other than ModeColumnEdit the column cursor list is empty and
\* ColumnEditEnabled() is false.
C17_ColumnStateOnlyInColumnEdit ==
    editor.mode # ModeColumnEdit =>
        editor.columnEdit.selections = <<>> /\ ~ColumnEditEnabled(editor)

\* C18: after any sequence of mode changes, in ModeNormal and in ModeReadOnly
\* there is no snippet context.
C18_NoSnippetCtxInNormalOrReadOnly ==
    editor.mode \in { ModeNormal, ModeReadOnly } => ~editor.snippetCtx

\* The input events that edit the document: text input, Tab, paste, line
\* break, and copy or cut.
EditEvents == { "onTextInput", "onTab", "onPasteEvent", "onInsertLineBreak", "onCopyCut" }

\* C19: in the read-only mode a text input, a Tab, a paste, a line break and
\* a cut leave the document text as it was (and the mode read-only); the
\* selection can still be set, and a copy or cut still hands the selected
\* text to the clipboard.
C19_ReadOnlyKeepsText ==
    [][ editor.mode = ModeReadOnly =>
          /\ eop'.name \in EditEvents =>
                /\ editor'.text = editor.text
                /\ editor'.mode = ModeReadOnly
          /\ (eop'.name = "onCopyCut" /\ editor.caret.start # editor.caret.end) =>
                eop'.text = SubSeq(editor.text,
                                   Min(editor.caret.start, editor.caret.end) + 1,
                                   Max(editor.caret.start, editor.caret.end)) ]_vars

\* A cut in the read-only mode with the whole text "a\n" selected: the
\* text went to the clipboard and is still in the document.
C19_Witness ==
    /\ editor.mode = ModeReadOnly
    /\ eop.name = "onCopyCut" /\ eop.flag /\ eop.text = << 97, 10 >>
    /\ editor.text = << 97, 10 >>
    /\ editor.caret = [start |-> 0, end |-> 2]

\* C20: in normal text input, an opening bracket whose following neighbour
\* is no word character, and a quote with no word character on either side,
\* is inserted together with its counterpart, the caret is left between the
\* two, and the counterpart is recorded in autoInsertions at the caret; in
\* the other case only the typed character is inserted and autoInsertions
\* has no entry at the position of the input. The neighbours are the runes
\* before and after the start of the event's range.
C20_AutoPairByNeighbours ==
    [][ ( /\ eop'.name = "onTextInput"
          /\ editor.mode # ModeReadOnly
          /\ ~(ColumnEditEnabled(editor) /\ Len(editor.columnEdit.selections) > 0)
          /\ eop'.text[1] \in { 40, 34 } ) =>
          LET r == eop'.text[1]
              counterpart == IF r = 40 THEN 41 ELSE 34
              rs == Min(editor.caret.start, editor.caret.end)
              re == Max(editor.caret.start, editor.caret.end)
              wordAfter == rs < Len(editor.text) /\ IsWordChar(editor.text[rs + 1])
              wordBefore == rs > 0 /\ IsWordChar(editor.text[rs])
              pairs == IF r = 40 THEN ~wordAfter ELSE ~wordAfter /\ ~wordBefore
          IN IF pairs
             THEN /\ editor'.text = Splice(editor.text, rs, re, << r, counterpart >>)
                  /\ editor'.caret = [start |-> rs + 1, end |-> rs + 1]
                  /\ MapGet(editor'.autoInsertions, rs + 1) = counterpart
             ELSE /\ editor'.text = Splice(editor.text, rs, re, << r >>)
                  /\ MapGet(editor'.autoInsertions, rs) = 0 ]_vars

\* "(" was typed behind the word character of "a": the text is "a()", the
\* caret is between the brackets and ")" is tracked there.
C20_Witness ==
    /\ eop.name = "onTextInput" /\ eop.text = << 40 >>
    /\ editor.mode = ModeNormal
    /\ editor.text = << 97, 40, 41 >>
    /\ editor.caret = [start |-> 2, end |-> 2]
    /\ MapGet(editor.autoInsertions, 2) = 41

\* C21: a closing bracket or quote typed where the rune at the start of the
\* event's range equals the auto-insertion tracked at that offset leaves the
\* text as it was, moves the caret one rune on and removes the tracked
\* entry; a closing bracket typed anywhere else is inserted as it is.
C21_TrackedClosingIsSkipped ==
    [][ ( /\ eop'.name = "onTextInput"
          /\ editor.mode # ModeReadOnly
          /\ ~(ColumnEditEnabled(editor) /\ Len(editor.columnEdit.selections) > 0)
          /\ eop'.text[1] \in { 41, 34 } ) =>
          LET r == eop'.text[1]
              rs == Min(editor.caret.start, editor.caret.end)
              re == Max(editor.caret.start, editor.caret.end)
              tracked == /\ rs < Len(editor.text)
                         /\ editor.text[rs + 1] = MapGet(editor.autoInsertions, rs)
          IN IF tracked
             THEN /\ editor'.text = editor.text
                  /\ editor'.caret = [start |-> Min(editor.caret.start + 1, Len(editor.text)),
                                      end |-> Min(editor.caret.end + 1, Len(editor.text))]
                  /\ MapGet(editor'.autoInsertions, rs) = 0
             ELSE r = 41 =>
                  /\ editor'.text = Splice(editor.text, rs, re, << r >>)
                  /\ editor'.caret = [start |-> rs + 1, end |-> rs + 1] ]_vars

\* C22: a backspace with an empty selection behind a space removes, when the
\* paragraph holds only spaces and tabs up to the caret, min(k, TabWidth)
\* spaces, k being the number of consecutive spaces just before the caret;
\* when another character precedes the caret in the paragraph it removes the
\* one rune before the caret.
C22_BackspaceIndent ==
    [][ ( /\ eop'.name = "onDeleteBackward"
          /\ editor.caret.start = editor.caret.end
          /\ editor.caret.start > 0
          /\ editor.text[editor.caret.start] = 32 ) =>
          LET c == editor.caret.start
              lineStart == LineStart(editor.text, c)
              onlyIndent == \A i \in (lineStart + 1)..c : editor.text[i] \in { 32, 9 }
              k == CHOOSE j \in 1..c :
                      /\ \A i \in (c - j + 1)..c : editor.text[i] = 32
                      /\ j = c \/ editor.text[c - j] # 32
              n == IF onlyIndent THEN Min(k, TabWidth) ELSE 1
          IN /\ editor'.text = Splice(editor.text, c - n, c, <<>>)
             /\ editor'.caret = [start |-> c - n, end |-> c - n] ]_vars

\* A backspace behind three spaces removed two of them, the tab width.
C22_Witness ==
    /\ eop.name = "onDeleteBackward"
    /\ eop.text = << 32, 32 >>
    /\ editor.text = << 32 >>
    /\ editor.caret = [start |-> 1, end |-> 1]

\* The document after txt was inserted at the rune offset of each of the
\* cursors from the k-th to the last, in the document text.
RECURSIVE InsertedAtCursors(_, _, _, _)
InsertedAtCursors(text, cursors, k, txt) ==
    IF k > Len(cursors) THEN text
    ELSE LET off == edConvertPos(text, cursors[k].line, cursors[k].col)
         IN Splice(InsertedAtCursors(text, cursors, k + 1, txt), off, off, txt)

C24_DragCoversLineRange ==
    [][ eop'.name = "updateColumnSelection" =>
          LET ay == editor.columnEdit.anchor.Y
              py == eop'.pos.Y
              lo == (Min(ay, py) + view.scrollOff.Y) \div LineHeight
              hi == (Max(ay, py) + view.scrollOff.Y) \div LineHeight
              lines == { L \in 0..(Paragraphs(editor.text) - 1) : lo <= L /\ L <= hi }
              cursors == editor'.columnEdit.selections
          IN /\ Len(cursors) = Cardinality(lines)
             /\ \A k \in 1..Len(cursors) : cursors[k].line \in lines
             /\ \A k \in 1..(Len(cursors) - 1) : cursors[k].line < cursors[k + 1].line ]_vars

\* C25: after every caret motion the caret is a rune offset of the grapheme
\* table of the document and lies within the document.
C25_CaretOnClusterBoundary ==
    [][ eop'.name \in MotionNames =>
          /\ 0 <= view'.caret.start
          /\ view'.caret.start <= Len(view'.text)
          /\ \E i \in 1..Len(Boundaries(view'.text)) :
                Boundaries(view'.text)[i] = view'.caret.start ]_vars

\* C26 as stated: after a motion with the action Clear the selection end
\* equals the caret; after a motion with the action Extend the selection end
\* has the value it had before the motion.
C26_ExtendKeepsAnchor ==
    [][ eop'.name \in SelectionMotions =>
          IF eop'.selAct = selectionClear
          THEN view'.caret.end = view'.caret.start
          ELSE view'.caret.end = view.caret.end ]_vars

\* Whether the rune offset pos is a grapheme cluster boundary of text.
IsBoundary(text, pos) ==
    \E i \in 1..Len(Boundaries(text)) : Boundaries(text)[i] = pos

\* C26, amended: after a motion with the action Clear the selection end
\* equals the caret; after a motion with the action Extend the selection end
\* has the value it had before the motion when that was a grapheme cluster
\* boundary, and after MoveLines and MovePages in any case; a selection end
\* that an edit left inside a cluster is moved by the other motions to the
\* end of the cluster.
C26_ExtendKeepsBoundaryAnchor ==
    [][ eop'.name \in SelectionMotions =>
          IF eop'.selAct = selectionClear
          THEN view'.caret.end = view'.caret.start
          ELSE IF IsBoundary(view.text, view.caret.end)
                  \/ eop'.name \in { "MoveLines", "MovePages" }
          THEN view'.caret.end = view.caret.end
          ELSE /\ view'.caret.end > view.caret.end
               /\ IsBoundary(view.text, view'.caret.end)
               /\ \A p \in (view.caret.end + 1)..(view'.caret.end - 1) :
                     ~IsBoundary(view.text, p) ]_vars

\* A motion with the action Extend moved the caret away from the selection
\* end, which is inside the document.
C26_Witness ==
    /\ eop.name \in SelectionMotions
    /\ eop.selAct = selectionExtend
    /\ view.caret.end = 2
    /\ view.caret.start = 0
    /\ Len(view.text) = 3

\* C27: after scrollAbs or ScrollRel the scroll offset is, on the horizontal
\* and on the vertical axis, the requested offset clamped to
\* [0, max(0, document size - viewport size)].
C27_ScrollOffsetIsClamped ==
    [][ eop'.name \in { "scrollAbs", "ScrollRel" } =>
          LET req == IF eop'.name = "scrollAbs" THEN eop'.pos
                     ELSE [X |-> view.scrollOff.X + eop'.pos.X,
                           Y |-> view.scrollOff.Y + eop'.pos.Y]
          IN /\ view'.scrollOff.X =
                   Clamp(req.X, 0, Max(0, view.dims.X - view.viewSize.X))
             /\ view'.scrollOff.Y =
                   Clamp(req.Y, 0, Max(0, view.dims.Y - view.viewSize.Y)) ]_vars

\* C28: a query of the layout lays the text out exactly once when the
\* layout was invalidated since the last layout, however many times, and
\* not at all otherwise; an invalidation lays nothing out. Layout makes two
\* queries, with an invalidation of its own between them when the size of
\* the viewport changes.
C28_InvalidationsCoalesce ==
    [][ /\ eop'.name = "SetText" => ~view'.valid /\ view'.layouts = 0
        /\ eop'.name = "Len" =>
              /\ view'.valid
              /\ view'.layouts = (IF eop'.invalidations > 0 \/ ~view.valid
                                  THEN 1 ELSE 0)
        /\ eop'.name = "Layout" =>
              /\ view'.valid
              /\ view'.layouts =
                    (IF eop'.invalidations > 0 \/ ~view.valid \/ eop'.flag
                     THEN 1 ELSE 0)
                    + (IF view'.viewSize # view.viewSize THEN 1 ELSE 0) ]_vars

\* Three invalidations and then a query, which laid the text out once.
C28_Witness ==
    /\ eop.name = "Len"
    /\ eop.invalidations = MaxInvalidations
    /\ view.layouts = 1
    /\ view.valid

\* C29: after recompute(alignOff, _) on a line that has glyphs, whatever
\* their advances and directions, no glyph starts left of alignOff, no two
\* glyph intervals [X, X + advance) overlap, and together they cover
\* [alignOff, alignOff + sum of the advances), so that the span from the
\* least X to the greatest X + advance is the sum of the advances.
C29_GlyphsTileTheLine ==
    eop.name = "recompute" /\ Len(textLine.Glyphs) > 0 =>
       LET g == textLine.Glyphs
           n == Len(g)
           a == eop.pos.X
           total == SumAdvance(g, 1, n)
           lo == CHOOSE x \in { g[i].X : i \in 1..n } :
                    \A i \in 1..n : x <= g[i].X
           hi == CHOOSE x \in { g[i].X + g[i].Advance : i \in 1..n } :
                    \A i \in 1..n : g[i].X + g[i].Advance <= x
       IN /\ \A i \in 1..n : g[i].X >= a
          /\ \A i, j \in 1..n :
                i # j => \/ g[i].X + g[i].Advance <= g[j].X
                         \/ g[j].X + g[j].Advance <= g[i].X
          /\ \A x \in a..(a + total - 1) :
                \E i \in 1..n : g[i].X <= x /\ x < g[i].X + g[i].Advance
          /\ hi - lo = total

\* A left-to-right glyph followed by a right-to-left run of two, laid out
\* from the offset 1.
C29_Witness ==
    /\ eop.name = "recompute"
    /\ eop.pos.X = 1
    /\ Len(textLine.Glyphs) = 3
    /\ [i \in 1..3 |-> textLine.Glyphs[i].rtl] = << FALSE, TRUE, TRUE >>
    /\ [i \in 1..3 |-> textLine.Glyphs[i].Advance] = << 1, 2, 1 >>
    /\ [i \in 1..3 |-> textLine.Glyphs[i].X] = << 1, 3, 2 >>

\* C30: FindAllWordOccurrences(start, end) returns, in ascending order,
\* exactly the ranges at which the word of [start, end) occurs as a whole
\* word: a maximal run of runes that are no separators, equal to the word.
\* It returns no range that is only a part of a longer word.
C30_WholeWordOccurrences ==
    eop.name = "FindAllWordOccurrences"
       /\ search.start < search.end /\ search.end <= Len(search.text) =>
       LET text == search.text
           n == Len(text)
           occ == search.occurrences
           sep(i) == separator(text[i + 1], search.bySpace)
           target == SubSeq(text, search.start + 1, search.end)
           wholeWords ==
               { << s, e >> \in (0..n) \X (0..n) :
                    /\ s < e
                    /\ \A i \in s..(e - 1) : ~sep(i)
                    /\ s = 0 \/ sep(s - 1)
                    /\ e = n \/ sep(e)
                    /\ SubSeq(text, s + 1, e) = target }
       IN /\ \A k \in 1..Len(occ) : occ[k] \in wholeWords
          /\ \A w \in wholeWords : \E k \in 1..Len(occ) : occ[k] = w
          /\ \A k \in 1..(Len(occ) - 1) : occ[k][1] < occ[k + 1][1]

C32_OneProviderPerIDByPriority ==
    [][ LET ps == gutter'.providers
            old == gutter.providers
            call == gutter'.call
            others(list) == { list[i] : i \in { j \in 1..Len(list) : list[j].id # call.id } }
            rest(mp) == { e \in mp : e[1] # call.id }
        IN /\ \A i, j \in 1..Len(ps) : i # j => ps[i].id # ps[j].id
           /\ \A i \in 1..(Len(ps) - 1) : ps[i].priority >= ps[i + 1].priority
           /\ call.name = "Register" =>
                 /\ others(ps) = others(old)
                 /\ \E i \in 1..Len(ps) :
                       ps[i].id = call.id /\ ps[i].priority = call.priority
           /\ call.name = "Unregister" =>
                 /\ ps = SelectSeq(old, LAMBDA q : q.id # call.id)
                 /\ gutter'.providerBounds = rest(gutter.providerBounds)
                 /\ gutter'.providerWidths = rest(gutter.providerWidths)
                 /\ rest(gutter'.providerBounds) = gutter'.providerBounds ]_vars

\* Three providers were laid out and one of them was unregistered: two are
\* left, in descending order, with their two cached widths and bounds.
C32_Witness ==
    /\ gutter.call.name = "Unregister"
    /\ Len(gutter.providers) = 2
    /\ gutter.providers[1].priority > gutter.providers[2].priority
    /\ Cardinality(gutter.providerWidths) = 2
    /\ Cardinality(gutter.providerBounds) = 2
    /\ gutter.totalWidth = 3 + 2 * GapPx

\* C33: in every state reached by Insert, Undo and Redo, an Insert that
\* returns true makes the inserted text part of the document: the text read
\* back is the text before with the new text spliced in at the rune index.
C33_InsertSplicesText ==
    \A i \in -1..(seqLength + 1), t \in Texts :
        LET r == Insert(PT, i, t)
            at == ForwardBytes(Text, i, 1)
        IN r.ok => TextOf(r.st) = Splice(Text, at, at, t)

\* The sum of the byte lengths (bytes = TRUE) or of the rune lengths of the
\* first k of the pieces ids.
RECURSIVE SumField(_, _, _)
SumField(ids, k, bytes) ==
    IF k = 0 THEN 0
    ELSE (IF bytes THEN pieces[ids[k]].byteLength ELSE pieces[ids[k]].length)
           + SumField(ids, k - 1, bytes)

\* C34: in every state reached by Insert, Undo and Redo the recorded length
\* of the sequence in runes and in bytes is the sum of the rune lengths and
\* of the byte lengths of the pieces linked in the piece list, and every
\* piece has at least as many bytes as runes.
C34_LengthsAreSumsOfPieces ==
    LET ids == Walk(pieces)
    IN /\ seqLength = SumField(ids, Len(ids), FALSE)
       /\ seqBytes = SumField(ids, Len(ids), TRUE)
       /\ \A k \in 1..Len(pieces) : pieces[k].byteLength >= pieces[k].length

\* C35: starting in the read-only mode, no pointer press with or without
\* modifiers, drag, text input, Tab, paste or line break takes the editor
\* out of the read-only mode or changes the document.
C35_InputKeepsReadOnly ==
    [][ editor'.mode = ModeReadOnly /\ editor'.text = editor.text ]_vars

\* C36: AddCompletor returns no error for a completor whose key binding is
\* empty, whatever completors are registered already.
C36_EmptyKeyBindingAccepted ==
    \A t \in Triggers :
        (t.KeyName = "" /\ t.KeyMods = 0) => ~AddCompletor(DC, t).err

\* C37: whenever a typed closing bracket is swallowed, the rune at the caret
\* that the caret moves over is one the editor auto-inserted, never one the
\* user typed, after any sequence of inputs, backspaces and caret moves.
C37_OnlyAutoInsertedIsSwallowed ==
    (eop.name = "onTextInput" /\ eop.flag) => eop.auto[eop.pos.X + 1]

\* C38: the grapheme boundary table that a MoveCaret made directly after a
\* Replace reads is the table of the edited document, not the one built
\* before the edit.
C38_ReadAfterEditSeesNewTable ==
    [][ (eop.name = "Replace" /\ eop'.name = "MoveCaret") =>
          view.graphemes = Boundaries(view.text) ]_vars

\* C39: after recompute(alignOff, runeOff) every glyph lies in its maximal
\* run of glyphs of one direction; the run's left edge is alignOff plus the
\* advances of the glyphs before the run; a left-to-right glyph is at the
\* left edge plus the advances of the run's earlier glyphs, a right-to-left
\* glyph at the run's right edge minus the advances of the run's glyphs up
\* to and including it; and a second recompute with the same alignOff
\* leaves every X as it is.
C39_RunsPlacedByDirection ==
    eop.name = "recompute" =>
       LET g == textLine.Glyphs
           n == Len(g)
           a == eop.pos.X
           first(i) == CHOOSE s \in 1..i :
                          /\ \A k \in s..i : g[k].rtl = g[i].rtl
                          /\ s = 1 \/ g[s - 1].rtl # g[i].rtl
           last(i) == CHOOSE e \in i..n :
                         /\ \A k \in i..e : g[k].rtl = g[i].rtl
                         /\ e = n \/ g[e + 1].rtl # g[i].rtl
           left(i) == a + SumAdvance(g, 1, first(i) - 1)
           right(i) == left(i) + SumAdvance(g, first(i), last(i))
       IN /\ \A i \in 1..n :
                g[i].X = IF g[i].rtl
                         THEN right(i) - SumAdvance(g, first(i), i)
                         ELSE left(i) + SumAdvance(g, first(i), i - 1)
          /\ recompute(textLine, a, eop.pos.Y).Glyphs = g

\* A right-to-left run of two glyphs followed by a left-to-right glyph,
\* laid out from the offset 1.
C39_Witness ==
    /\ eop.name = "recompute"
    /\ eop.pos.X = 1
    /\ Len(textLine.Glyphs) = 3
    /\ [i \in 1..3 |-> textLine.Glyphs[i].rtl] = << TRUE, TRUE, FALSE >>
    /\ [i \in 1..3 |-> textLine.Glyphs[i].Advance] = << 1, 2, 1 >>
    /\ [i \in 1..3 |-> textLine.Glyphs[i].X] = << 3, 1, 4 >>

\* C40: parseDiffOutput returns one hunk per hunk header, in the order of
\* the input; the hunk is Added when the old count is 0, Deleted when the
\* new count is 0 and Modified otherwise, starts at the new start minus 1,
\* ends max(new count - 1, 0) lines later, and its OldLines and NewLines are
\* the removed and the added lines of the hunk, whatever their content.
C40_OneHunkPerHeader ==
    eop.name = "ParseGitDiff" =>
       /\ Len(diff.hunks) = Len(diff.made)
       /\ \A k \in 1..Len(diff.made) :
             LET c == diff.made[k]
                 h == diff.hunks[k]
             IN /\ h.Type = IF Len(c.removed) = 0 THEN "DiffAdded"
                            ELSE IF Len(c.added) = 0 THEN "DiffDeleted"
                            ELSE "DiffModified"
                /\ h.StartLine = c.newStart - 1
                /\ h.EndLine = h.StartLine + Max(Len(c.added) - 1, 0)
                /\ h.OldLines = c.removed
                /\ h.NewLines = c.added

====
